---- MODULE Spec2Model ----
(***************************************************************************)
(* Vendor Risk Reliability Score (VRRS) engine: the threshold scorer, the  *)
(* five dimension scorers and the aggregator of score_calculator.py.       *)
(*                                                                         *)
(* Number representation.  The Python code computes on floats; the model   *)
(* computes on exact integers in fixed units:                              *)
(*   - financial ratios (Altman_Z, DTE, DTI, ROA, ROE): thousandths        *)
(*   - award amounts: dollars; counts: units                               *)
(*   - competition percentages: 1/PctUnit of a percent, so that            *)
(*     (non_competitive / total) * 100 is exact for every total up to 6    *)
(*   - every score a scorer returns: hundredths (round(x, 2) grid)         *)
(*   - weights: hundredths                                                 *)
(* float('inf') is the sentinel Inf, larger than every modelled value.     *)
(*                                                                         *)
(* Floating point.  A float result differs from the exact value by a       *)
(* representation error far below the grid, so rounding to two decimals    *)
(* gives the hundredth nearest to the exact value, except when the exact   *)
(* value lies exactly half way between two hundredths: then the sign of    *)
(* the error decides.  That sign is a function of the operands' binary     *)
(* representation, which the integers of the model do not carry; it is the *)
(* variable fp, one direction per rounding site, fixed for a behaviour.    *)
(*                                                                         *)
(* Historical series (financial metrics by year, visa counts by year) hold *)
(* whole numbers; a missing value is NaN or None.                          *)
(***************************************************************************)
EXTENDS Integers, Sequences, FiniteSets, TLC

\* vendor_data: the vendor record (a dict) the caller holds and the scorers annotate
\* call:        the invocation being made: the operation and its arguments
\* pc:          "call" before the operation has run, "done" after it returned
\* ret:         the value the operation returned
\* fp:          per rounding site, the direction in which the float error
\*              resolves an exact half-way tie
VARIABLES vendor_data, call, pc, ret, fp

vars == <<vendor_data, call, pc, ret, fp>>

RoundingSites == {"federal", "labor_current", "labor_final", "vrrs"}

\* The regression has two more places where the exact value sits on a
\* comparison: |r| = 0.5 against "> 0.5" and slope = 0 against "> 0", "< 0"
FloatSites == RoundingSites \cup {"correlation", "slope"}

TieDirs == {"down", "up"}

\* a float that is exactly 0 in the reals is negative, zero or positive
SignDirs == {"down", "exact", "up"}

NoTies == [s \in FloatSites |-> IF s = "slope" THEN "exact" ELSE "down"]

\* float('inf') in the threshold tables
Inf == 2000000000

\* The empty dict {}
EmptyDict == [k \in {} |-> 0]

\* dict.get(key, default)
Get(d, key, default) == IF key \in DOMAIN d THEN d[key] ELSE default

\* d[key] = value (assignment into a dict, other keys kept)
Remove(d, key) == [k \in DOMAIN d \ {key} |-> d[k]]

Put(d, key, value) ==
    [k \in (DOMAIN d) \cup {key} |-> IF k = key THEN value ELSE d[k]]

\* Python's and numpy's sum over a list
RECURSIVE SumSeq(_)
SumSeq(s) == IF s = <<>> THEN 0 ELSE Head(s) + SumSeq(Tail(s))

Max2(a, b) == IF a >= b THEN a ELSE b
Min2(a, b) == IF a <= b THEN a ELSE b
Abs(a) == IF a < 0 THEN -a ELSE a

\* floor(n / d) for d > 0 and any integer n
FloorDiv(n, d) == IF n >= 0 THEN n \div d ELSE -((-n + d - 1) \div d)

\* round(num / den) to the nearest integer for den > 0: round(x, 2) and the
\* .2f format on the float whose exact value is num / den hundredths; an exact
\* tie goes the way the float error points
Round2(num, den, tie) ==
    LET q == FloorDiv(num, den)
        r == num - q * den
    IN  IF 2 * r < den THEN q
        ELSE IF 2 * r > den THEN q + 1
        ELSE IF tie = "up" THEN q + 1 ELSE q

(***************************************************************************)
(* ThresholdScorer: score_with_thresholds, defined identically in          *)
(* financial_stability.py, federal_contract.py, foreign_labor.py and       *)
(* sanctions.py.  A band is <<lower, upper, score>>.                       *)
(***************************************************************************)
RECURSIVE score_with_thresholds_last(_, _)
score_with_thresholds_last(value, thresholds) ==
    IF thresholds = <<>> THEN 0
    ELSE LET rest == score_with_thresholds_last(value, Tail(thresholds))
             b == Head(thresholds)
         IN  IF rest # 0 THEN rest
             ELSE IF b[1] <= value /\ value <= b[2] THEN b[3] ELSE 0

RECURSIVE score_with_thresholds(_, _)
score_with_thresholds(value, thresholds) ==
    IF thresholds = <<>> THEN 0
    ELSE LET b == Head(thresholds)
         IN  IF b[1] <= value /\ value <= b[2] THEN b[3]
             ELSE score_with_thresholds(value, Tail(thresholds))

\* ---- financial_stability.py tables (ratios in thousandths) ----
FINANCIAL_METRIC_WEIGHTS ==
    [Altman_Z |-> 30, DTE |-> 20, DTI |-> 20, ROA |-> 15, ROE |-> 15]

FinancialMetrics == DOMAIN FINANCIAL_METRIC_WEIGHTS

METRIC_RANGES ==
    [Altman_Z |-> << <<1000, 1810, 10>>, <<1810, 2990, 5>>, <<2990, Inf, 1>> >>,
     DTE |-> << <<0, 500, 1>>, <<510, 1000, 3>>, <<1010, 2000, 5>>,
                <<2010, 3000, 7>>, <<3000, Inf, 10>> >>,
     DTI |-> << <<0, 500, 1>>, <<510, 1000, 3>>, <<1010, 2000, 5>>,
                <<2010, 3000, 7>>, <<3000, Inf, 10>> >>,
     ROA |-> << <<-1000, -500, 10>>, <<-490, -10, 8>>, <<0, 500, 5>>,
                <<510, 990, 3>>, <<1000, Inf, 1>> >>,
     ROE |-> << <<-1000, -500, 10>>, <<-490, -10, 8>>, <<0, 500, 5>>,
                <<510, 990, 3>>, <<1000, Inf, 1>> >>]

calculate_financial_metric_score(metric, value) ==
    score_with_thresholds(value, Get(METRIC_RANGES, metric, <<>>))

\* ---- federal_contract.py tables (amounts in dollars) ----
AGENCY_THRESHOLDS ==
    << <<5, Inf, 1>>, <<3, 4, 4>>, <<1, 2, 7>>, <<0, 0, 10>> >>

SUB_AGENCY_THRESHOLDS ==
    << <<5, Inf, 1>>, <<3, 4, 4>>, <<1, 2, 7>>, <<0, 0, 10>> >>

AwardBands(s1, s2, s3, s4) ==
    << <<50000000, Inf, s1>>, <<20000000, 50000000, s2>>,
       <<10000000, 20000000, s3>>, <<0, 10000000, s4>> >>

AWARD_TYPE_THRESHOLDS ==
    [t \in {"prime_contract", "prime_assistance", "sub_contract",
            "sub_assistance", "prime_award", "sub_award", "sub-grant"} |->
        CASE t = "prime_contract"   -> AwardBands(1, 2, 3, 5)
          [] t = "prime_assistance" -> AwardBands(2, 3, 4, 5)
          [] t = "sub_contract"     -> AwardBands(3, 4, 5, 6)
          [] t = "sub_assistance"   -> AwardBands(3, 4, 6, 7)
          [] t = "prime_award"      -> AwardBands(1, 2, 3, 5)
          [] t = "sub_award"        -> AwardBands(3, 4, 5, 6)
          [] t = "sub-grant"        -> AwardBands(3, 4, 6, 7)]

\* one percent, in the unit of the competition percentages
PctUnit == 60

COMPETITION_THRESHOLDS ==
    << <<0, 25 * PctUnit, 1>>, <<26 * PctUnit, 50 * PctUnit, 4>>,
       <<51 * PctUnit, 70 * PctUnit, 7>>, <<71 * PctUnit, Inf, 10>> >>

score_amount_vs_year(award_type, amount) ==
    score_with_thresholds(amount, Get(AWARD_TYPE_THRESHOLDS, award_type, <<>>))

score_amount_vs_competition(no_competition_percentage) ==
    score_with_thresholds(no_competition_percentage, COMPETITION_THRESHOLDS)

score_amount_vs_agency(agency_count) ==
    score_with_thresholds(agency_count, AGENCY_THRESHOLDS)

score_amount_vs_sub_agency(sub_agency_count) ==
    score_with_thresholds(sub_agency_count, SUB_AGENCY_THRESHOLDS)

\* ---- foreign_labor.py and sanctions.py tables ----
VisaOtherBands == << <<0, 10, 1>>, <<11, 20, 2>>, <<21, 50, 4>>, <<51, Inf, 6>> >>

VISA_CATEGORY_THRESHOLDS ==
    [certified |-> << <<0, 10, 1>>, <<11, 20, 6>>, <<21, 50, 8>>, <<51, Inf, 10>> >>,
     denied |-> VisaOtherBands,
     withdrawn |-> VisaOtherBands,
     certified_expired |-> VisaOtherBands,
     unspecified |-> VisaOtherBands]

SANCTIONS_THRESHOLDS ==
    << <<0, 0, 0>>, <<1, 3, 3>>, <<4, 10, 5>>, <<11, 20, 7>>, <<21, Inf, 10>> >>

(***************************************************************************)
(* Threshold scorer calls.  Each initial state holds one pending call; the *)
(* action runs it.                                                         *)
(***************************************************************************)
\* Bounds of the generic tables tried on score_with_thresholds
MaxBands == 2
MaxBound == 2
MaxBandScore == 2

GenericBands ==
    {b \in (0..MaxBound) \X (0..MaxBound) \X (0..MaxBandScore) : b[1] <= b[2]}

GenericTables == UNION {[1..n -> GenericBands] : n \in 0..MaxBands}

GenericValues == (-1)..(MaxBound + 1)

\* Every bound of a table, and its two neighbours
BoundsOf(table) ==
    {table[i][1] : i \in 1..Len(table)} \cup
    ({table[i][2] : i \in 1..Len(table)} \ {Inf})

ProbeValues(table) == UNION {{b - 1, b, b + 1} : b \in BoundsOf(table)}

AwardTypes == DOMAIN AWARD_TYPE_THRESHOLDS

\* the award types tried: the keys of the table, and names that are no key
AwardTypeInputs == AwardTypes \cup {"sub_grant", "grant"}

VisaCategories == DOMAIN VISA_CATEGORY_THRESHOLDS

\* get_visa_category_score as calculate_country_score_with_visa calls it: the
\* first argument is the category name, so the 'h1b_data' in ... test is a
\* substring test on that name and is false for all five categories
get_visa_category_score(category, count) ==
    score_with_thresholds(count, Get(VISA_CATEGORY_THRESHOLDS, category, <<>>))

\* The table a threshold call scores against
CallTable ==
    CASE call.op = "score_with_thresholds" -> call.thresholds
      [] call.op = "calculate_financial_metric_score" -> METRIC_RANGES[call.metric]
      [] call.op = "score_amount_vs_year" ->
            Get(AWARD_TYPE_THRESHOLDS, call.award_type, <<>>)
      [] call.op = "score_amount_vs_competition" -> COMPETITION_THRESHOLDS
      [] call.op = "score_amount_vs_agency" -> AGENCY_THRESHOLDS
      [] call.op = "score_amount_vs_sub_agency" -> SUB_AGENCY_THRESHOLDS
      [] call.op = "get_visa_category_score" -> VISA_CATEGORY_THRESHOLDS[call.category]

ScorerTableOps ==
    {"calculate_financial_metric_score", "score_amount_vs_year",
     "score_amount_vs_competition", "score_amount_vs_agency",
     "score_amount_vs_sub_agency", "get_visa_category_score"}

Return(value) ==
    /\ ret' = value
    /\ pc' = "done"
    /\ UNCHANGED <<vendor_data, call, fp>>

ScoreWithThresholds ==
    /\ pc = "call" /\ call.op = "score_with_thresholds"
    /\ Return(score_with_thresholds(call.value, call.thresholds))

CalculateFinancialMetricScore ==
    /\ pc = "call" /\ call.op = "calculate_financial_metric_score"
    /\ Return(calculate_financial_metric_score(call.metric, call.value))

ScoreAmountVsYear ==
    /\ pc = "call" /\ call.op = "score_amount_vs_year"
    /\ Return(score_amount_vs_year(call.award_type, call.value))

ScoreAmountVsCompetition ==
    /\ pc = "call" /\ call.op = "score_amount_vs_competition"
    /\ Return(score_amount_vs_competition(call.value))

ScoreAmountVsAgency ==
    /\ pc = "call" /\ call.op = "score_amount_vs_agency"
    /\ Return(score_amount_vs_agency(call.value))

ScoreAmountVsSubAgency ==
    /\ pc = "call" /\ call.op = "score_amount_vs_sub_agency"
    /\ Return(score_amount_vs_sub_agency(call.value))

GetVisaCategoryScore ==
    /\ pc = "call" /\ call.op = "get_visa_category_score"
    /\ Return(get_visa_category_score(call.category, call.value))

InitThreshold ==
    /\ vendor_data = EmptyDict
    /\ fp = NoTies
    /\ \/ \E v \in GenericValues, t \in GenericTables :
            call = [op |-> "score_with_thresholds", value |-> v, thresholds |-> t]
       \/ \E m \in FinancialMetrics : \E v \in ProbeValues(METRIC_RANGES[m]) :
            call = [op |-> "calculate_financial_metric_score", metric |-> m, value |-> v]
       \/ \E t \in AwardTypeInputs : \E v \in ProbeValues(AwardBands(1, 2, 3, 5)) :
            call = [op |-> "score_amount_vs_year", award_type |-> t, value |-> v]
       \/ \E v \in ProbeValues(COMPETITION_THRESHOLDS) :
            call = [op |-> "score_amount_vs_competition", value |-> v]
       \/ \E v \in ProbeValues(AGENCY_THRESHOLDS) :
            call = [op |-> "score_amount_vs_agency", value |-> v]
       \/ \E v \in ProbeValues(SUB_AGENCY_THRESHOLDS) :
            call = [op |-> "score_amount_vs_sub_agency", value |-> v]
       \/ \E c \in VisaCategories : \E v \in ProbeValues(VISA_CATEGORY_THRESHOLDS[c]) :
            call = [op |-> "get_visa_category_score", category |-> c, value |-> v]
    /\ pc = "call"
    /\ ret = 0

NextThreshold ==
    \/ ScoreWithThresholds
    \/ CalculateFinancialMetricScore
    \/ ScoreAmountVsYear
    \/ ScoreAmountVsCompetition
    \/ ScoreAmountVsAgency
    \/ ScoreAmountVsSubAgency
    \/ GetVisaCategoryScore

SpecThreshold == InitThreshold /\ [][NextThreshold]_vars

\* The bands of the call's table that contain the call's value
MatchingBands ==
    {i \in 1..Len(CallTable) :
        CallTable[i][1] <= call.value /\ call.value <= CallTable[i][2]}

\* C1: score_with_thresholds is total and first-match: for every table, the
\* empty one included, and every value it returns the score of the first band
\* in table order with low <= value <= high, and 0 when no band matches.
C1_FirstMatchTotal ==
    (pc = "done" /\ call.op = "score_with_thresholds") =>
        IF MatchingBands = {} THEN ret = 0
        ELSE \E i \in MatchingBands :
                /\ \A j \in MatchingBands : i <= j
                /\ ret = call.thresholds[i][3]

\* C1 witness: the value lies in two bands with different scores and the first
\* band's score was returned
C1_Witness ==
    /\ pc = "done" /\ call.op = "score_with_thresholds"
    /\ Len(call.thresholds) = 2 /\ MatchingBands = {1, 2}
    /\ call.thresholds[1][3] # call.thresholds[2][3]
    /\ call.thresholds[2][3] # 0
    /\ ret = call.thresholds[1][3]

\* C10: boundary rule: for every threshold table the scorers use and every
\* band (low, high, s) of it with finite high, scoring the value high gives s.
C10_UpperBoundBelongsToBand ==
    (pc = "done" /\ call.op \in ScorerTableOps) =>
        \A i \in 1..Len(CallTable) :
            (CallTable[i][2] # Inf /\ call.value = CallTable[i][2]) =>
                ret = CallTable[i][3]

\* The bands of a table that contain a value
BandsWith(value, table) ==
    {i \in 1..Len(table) : table[i][1] <= value /\ value <= table[i][2]}

\* C27: in every threshold table the scorers use the bands do not overlap: the
\* value of a scorer call matches at most one band of the call's table, and so
\* does every value around the bounds of the sanctions table.  Violated: the
\* award bands share their bounds (50M, 20M, 10M) and so do the bands of
\* Altman_Z (1.81, 2.99), DTE and DTI (3.0).
C27_BandsDoNotOverlap ==
    (pc = "done" /\ call.op \in ScorerTableOps) =>
        /\ Cardinality(MatchingBands) <= 1
        /\ \A v \in ProbeValues(SANCTIONS_THRESHOLDS) :
                Cardinality(BandsWith(v, SANCTIONS_THRESHOLDS)) <= 1

(***************************************************************************)
(* SanctionsScorer (sanctions.py).  A sanctions text is modelled as the    *)
(* sequence of its whitespace-separated tokens; a token is a word or a run *)
(* of digits.  An entry of a sanctions list is a text or a non-text value  *)
(* (NaN, None, a number).                                                  *)
(***************************************************************************)
VIOLATION_KEYWORDS == <<"violation", "violations", "violating", "violated">>

\* int(match) of a run of digits
IntOf == [t \in {"3", "12", "40"} |->
            CASE t = "3" -> 3 [] t = "12" -> 12 [] t = "40" -> 40]

IsNumber(tok) == tok \in DOMAIN IntOf

Words ==
    {"Company", "agreed", "to", "claims", "settle", "Settle", "alleged",
     "violation", "violations", "Violations", "violating", "Violated",
     "violated", "nonviolation"}

\* str.lower() on a token
Lower(tok) ==
    CASE tok = "Company" -> "company"
      [] tok = "Settle" -> "settle"
      [] tok = "Violations" -> "violations"
      [] tok = "Violated" -> "violated"
      [] OTHER -> tok

LowerText(toks) == [i \in 1..Len(toks) |-> Lower(toks[i])]

\* keyword in tok (substring test) on lower-case tokens
Contains(tok, keyword) ==
    CASE keyword = "violation" -> tok \in {"violation", "violations", "nonviolation"}
      [] keyword = "violations" -> tok = "violations"
      [] keyword = "violating" -> tok = "violating"
      [] keyword = "violated" -> tok = "violated"
      [] OTHER -> FALSE

\* any(keyword in text for keyword in VIOLATION_KEYWORDS)
HasViolationKeyword(toks) ==
    \E k \in 1..Len(VIOLATION_KEYWORDS) : \E i \in 1..Len(toks) :
        Contains(toks[i], VIOLATION_KEYWORDS[k])

\* re.findall(r'(\d+)\s+violation', text): a number followed by a token that
\* starts with "violation"
FindNumberViolation(toks) ==
    {IntOf[toks[i]] : i \in {j \in 1..(Len(toks) - 1) :
        IsNumber(toks[j]) /\ toks[j + 1] \in {"violation", "violations"}}}

\* re.findall(r'<word>\s+(\d+)\s+', text): a token ending with the word, then
\* a number, then white space, which in a text without trailing white space
\* means one more token
FindWordNumber(toks, word) ==
    {IntOf[toks[i + 1]] : i \in {j \in 1..(Len(toks) - 2) :
        toks[j] = word /\ IsNumber(toks[j + 1])}}

SetMax(S) == CHOOSE m \in S : \A x \in S : x <= m

\* the loop over number_patterns: the first pattern with a match decides
FirstPatternMax(toks) ==
    LET p1 == FindNumberViolation(toks)
        p2 == FindWordNumber(toks, "settle")
        p3 == FindWordNumber(toks, "alleged")
    IN  IF p1 # {} THEN SetMax(p1)
        ELSE IF p2 # {} THEN SetMax(p2)
        ELSE IF p3 # {} THEN SetMax(p3)
        ELSE 1

\* A text entry and a non-text entry
Text(toks) == [isstr |-> TRUE, toks |-> toks]
NonText == [isstr |-> FALSE, toks |-> <<>>]

extract_violation_count_nokeyword(text) ==
    IF ~text.isstr THEN 0
    ELSE FirstPatternMax(LowerText(text.toks))

extract_violation_count(text) ==
    IF ~text.isstr THEN 0
    ELSE LET toks == LowerText(text.toks)
         IN  IF ~HasViolationKeyword(toks) THEN 0
             ELSE FirstPatternMax(toks)

\* The loop of get_sanctions_score over the entries: <<total, details>>
RECURSIVE SumViolations(_)
SumViolations(texts) ==
    IF texts = <<>> THEN <<0, <<>> >>
    ELSE LET e == Head(texts)
             rest == SumViolations(Tail(texts))
             v == extract_violation_count(e)
         IN  IF ~e.isstr THEN rest
             ELSE <<v + rest[1],
                    IF v > 0 THEN <<v>> \o rest[2] ELSE rest[2]>>

\* get_sanctions_score with a loop that stops after the first entry
get_sanctions_score_firstentry(sanctions_data) ==
    LET Score(texts) ==
            LET sv == SumViolations(SubSeq(texts, 1, Min2(1, Len(texts))))
            IN  [score |-> Min2(score_with_thresholds(sv[1], SANCTIONS_THRESHOLDS), 10),
                 total_violations |-> sv[1], violation_details |-> sv[2],
                 error |-> FALSE]
    IN  CASE sanctions_data.kind = "list" -> Score(sanctions_data.value)
          [] sanctions_data.kind = "dict" /\ "sanctions" \in DOMAIN sanctions_data.value ->
                Score(sanctions_data.value["sanctions"])
          [] OTHER -> [score |-> 0, total_violations |-> 0, violation_details |-> <<>>,
                       error |-> TRUE]

\* get_sanctions_score(sanctions_data) for a list of entries (kind "list"), a
\* dict (kind "dict") and any other value (kind "other"); the returned tuple
\* (normalized_score, total_violations, details) as a record
get_sanctions_score(sanctions_data) ==
    LET Invalid == [score |-> 0, total_violations |-> 0, violation_details |-> <<>>,
                    error |-> TRUE]
        Score(texts) ==
            LET sv == SumViolations(texts)
                sanctions_score == score_with_thresholds(sv[1], SANCTIONS_THRESHOLDS)
            IN  [score |-> Min2(sanctions_score, 10), total_violations |-> sv[1],
                 violation_details |-> sv[2], error |-> FALSE]
    IN  CASE sanctions_data.kind = "list" -> Score(sanctions_data.value)
          [] sanctions_data.kind = "dict" /\ "sanctions" \in DOMAIN sanctions_data.value ->
                Score(sanctions_data.value["sanctions"])
          [] OTHER -> Invalid

\* Bounds of the texts tried
MaxTextLen == 4
MaxEntryLen == 2
MaxEntries == 2

TextAlphabet ==
    {"to", "claims", "settle", "alleged", "violations", "Violated",
     "nonviolation", "3", "40"}

EntryAlphabet == {"Violations", "3", "12", "40"}

ExampleText == <<"Company", "agreed", "to", "settle", "40", "violations">>

SeqsUpTo(S, n) == UNION {[1..k -> S] : k \in 0..n}

SanctionEntries ==
    {Text(t) : t \in SeqsUpTo(EntryAlphabet, MaxEntryLen)} \cup {NonText}

ExtractViolationCount ==
    /\ pc = "call" /\ call.op = "extract_violation_count"
    /\ Return(extract_violation_count(call.text))

GetSanctionsScore ==
    /\ pc = "call" /\ call.op = "get_sanctions_score"
    /\ Return(get_sanctions_score(call.sanctions_data))

InitSanctions ==
    /\ vendor_data = EmptyDict
    /\ fp = NoTies
    /\ pc = "call"
    /\ ret = 0
    /\ \/ \E t \in SeqsUpTo(TextAlphabet, MaxTextLen) \cup {ExampleText} :
            call = [op |-> "extract_violation_count", text |-> Text(t)]
       \/ call = [op |-> "extract_violation_count", text |-> NonText]
       \/ \E l \in SeqsUpTo(SanctionEntries, MaxEntries) :
            call = [op |-> "get_sanctions_score",
                    sanctions_data |-> [kind |-> "list", value |-> l]]
       \/ call = [op |-> "get_sanctions_score",
                  sanctions_data |-> [kind |-> "other", value |-> 0]]

NextSanctions ==
    \/ ExtractViolationCount
    \/ GetSanctionsScore

SpecSanctions == InitSanctions /\ [][NextSanctions]_vars

\* The text of the call holds one of the violation keywords, in any case
TextHasKeyword ==
    \E i \in 1..Len(call.text.toks) :
        Lower(call.text.toks[i]) \in
            {"violation", "violations", "violating", "violated", "nonviolation"}

\* One of the three numeric patterns matches somewhere in the text of the call
TextHasNumberPattern ==
    LET t == LowerText(call.text.toks)
    IN  \/ \E i \in 1..(Len(t) - 1) :
            IsNumber(t[i]) /\ t[i + 1] \in {"violation", "violations"}
        \/ \E i \in 1..(Len(t) - 2) :
            t[i] \in {"settle", "alleged"} /\ IsNumber(t[i + 1])

\* C7: extract_violation_count returns 0 for every text without a violation
\* keyword, whatever numbers it holds; 1 when a keyword is present and no
\* numeric pattern matches; and 40 for "Company agreed to settle 40 violations".
C7_ExtractViolationCount ==
    (pc = "done" /\ call.op = "extract_violation_count" /\ call.text.isstr) =>
        /\ ~TextHasKeyword => ret = 0
        /\ (TextHasKeyword /\ ~TextHasNumberPattern) => ret = 1
        /\ call.text.toks = ExampleText => ret = 40

\* C7 witness: the example text was scanned and 40 was extracted
C7_Witness ==
    /\ pc = "done" /\ call.op = "extract_violation_count"
    /\ call.text = Text(ExampleText)
    /\ ret = 40

\* Every number matched by one of the three numeric patterns in the text of
\* the call
AllPatternMatches ==
    LET t == LowerText(call.text.toks)
    IN  FindNumberViolation(t) \cup FindWordNumber(t, "settle")
            \cup FindWordNumber(t, "alleged")

\* C25: for a text with a violation keyword in which the numeric patterns
\* match, extract_violation_count returns the largest number matched by any
\* of the patterns.  Violated: the first pattern that matches decides, so
\* "settle 40 3 violations" gives 3.
C25_MaxAcrossPatterns ==
    (pc = "done" /\ call.op = "extract_violation_count" /\ call.text.isstr
        /\ TextHasKeyword /\ AllPatternMatches # {}) =>
        ret = SetMax(AllPatternMatches)

\* The count extracted from entry i of the list of the call, 0 for an entry
\* that is no text
EntryCount(i) ==
    LET e == call.sanctions_data.value[i]
    IN  IF e.isstr THEN extract_violation_count(e) ELSE 0

\* The sum of the counts of the first n entries
RECURSIVE CountsUpTo(_)
CountsUpTo(n) == IF n = 0 THEN 0 ELSE EntryCount(n) + CountsUpTo(n - 1)

\* The score the five bands give a total: 0 -> 0, 1-3 -> 3, 4-10 -> 5,
\* 11-20 -> 7, 21 and more -> 10
SanctionsBand(total) ==
    IF total = 0 THEN 0
    ELSE IF total <= 3 THEN 3
    ELSE IF total <= 10 THEN 5
    ELSE IF total <= 20 THEN 7
    ELSE 10

\* C26: get_sanctions_score on a list of entries skips the entries that are
\* no text, sums the counts extracted from the others and maps the total
\* through the five bands: the score is one of 0, 3, 5, 7, 10 and no smaller
\* total gets a higher score.
C26_SanctionsListScore ==
    (pc = "done" /\ call.op = "get_sanctions_score"
        /\ call.sanctions_data.kind = "list") =>
        /\ ~ret.error
        /\ ret.total_violations = CountsUpTo(Len(call.sanctions_data.value))
        /\ ret.score = SanctionsBand(ret.total_violations)
        /\ ret.score \in {0, 3, 5, 7, 10}
        /\ \A smaller \in 0..ret.total_violations :
                score_with_thresholds(smaller, SANCTIONS_THRESHOLDS) <= ret.score

\* C26 witness: two texts with 3 violations and 1 violation, each in the band
\* 1-3 on its own, were scored together as 4 violations in the band 4-10
C26_Witness ==
    /\ pc = "done" /\ call.op = "get_sanctions_score"
    /\ call.sanctions_data.kind = "list"
    /\ Len(call.sanctions_data.value) = 2
    /\ EntryCount(1) = 3 /\ EntryCount(2) = 1
    /\ ret.total_violations = 4 /\ ret.score = 5

(***************************************************************************)
(* Aggregator: calculate_vendor_risk_reliability and the risk categories.  *)
(* Scores and weights are in hundredths.  An optional argument is a record *)
(* [given, value]: given = FALSE is Python's None.                         *)
(***************************************************************************)
DEFAULT_RISK_WEIGHTS ==
    [financial_stability |-> 30, past_performance |-> 25, federal_contract |-> 15,
     foreign_labor_risk |-> 20, sanctions_risk |-> 10]

Dimensions == DOMAIN DEFAULT_RISK_WEIGHTS

None == [given |-> FALSE, value |-> EmptyDict]
Some(v) == [given |-> TRUE, value |-> v]

\* sum(weights.values())
RECURSIVE SumValues(_)
SumValues(d) ==
    IF DOMAIN d = {} THEN 0
    ELSE LET k == CHOOSE x \in DOMAIN d : TRUE
         IN  d[k] + SumValues([y \in DOMAIN d \ {k} |-> d[y]])

Raised(exception) == [raised |-> exception, value |-> 0]
Returned(value) == [raised |-> "none", value |-> value]

\* The exact weighted score is num / total_weight hundredths; the .2f format
\* rounds it to the nearest hundredth, a tie as the float error decided
WeightedScore(financial, past, contract, labor, sanctions, w, tie) ==
    LET total_weight == SumValues(w)
        num == financial * w["financial_stability"] + past * w["past_performance"]
               + contract * w["federal_contract"] + labor * w["foreign_labor_risk"]
               + sanctions * w["sanctions_risk"]
    IN  IF DOMAIN w # {} /\ total_weight = 0 THEN Raised("ZeroDivisionError")
        ELSE IF ~(Dimensions \subseteq DOMAIN w) THEN Raised("KeyError")
        ELSE IF total_weight < 0 THEN Returned(Round2(-num, -total_weight, tie))
        ELSE Returned(Round2(num, total_weight, tie))

\* the plain mean of the five scores, whatever the weights
calculate_vendor_risk_reliability_unweighted(financial, past, contract, labor, sanctions, weights, tie) ==
    Returned(Round2(financial + past + contract + labor + sanctions, 5, tie))

calculate_vendor_risk_reliability(financial, past, contract, labor, sanctions, weights, tie) ==
    WeightedScore(financial, past, contract, labor, sanctions,
                  IF weights.given THEN weights.value ELSE DEFAULT_RISK_WEIGHTS, tie)

\* (lower, upper, category) in hundredths
VRRS_RISK_THRESHOLDS ==
    << <<800, Inf, "Severe Risk">>, <<650, 799, "High Risk">>,
       <<450, 649, "Moderate Risk">>, <<250, 449, "Low Risk">>,
       <<0, 249, "Very Low Risk">> >>

\* the same looking at the first band only
determine_risk_category_firstband(score, thresholds) ==
    IF thresholds = <<>> THEN "Unknown Risk"
    ELSE IF Head(thresholds)[1] <= score /\ score <= Head(thresholds)[2]
         THEN Head(thresholds)[3]
         ELSE "Unknown Risk"

RECURSIVE determine_risk_category(_, _)
determine_risk_category(score, thresholds) ==
    IF thresholds = <<>> THEN "Unknown Risk"
    ELSE IF Head(thresholds)[1] <= score /\ score <= Head(thresholds)[2]
         THEN Head(thresholds)[3]
         ELSE determine_risk_category(score, Tail(thresholds))

\* Bounds of the aggregator calls tried
MaxScale == 3

ScoreGrid == {0, 250, 1000}
WeightGrid == {0, 25, 100}

ScaleWeights(k, w) == [d \in DOMAIN w |-> k * w[d]]

CalculateVendorRiskReliability ==
    /\ pc = "call" /\ call.op = "calculate_vendor_risk_reliability"
    /\ Return(calculate_vendor_risk_reliability(
                call.financial, call.past, call.contract, call.labor,
                call.sanctions, call.weights, fp["vrrs"]))

DetermineRiskCategory ==
    /\ pc = "call" /\ call.op = "determine_risk_category"
    /\ Return(determine_risk_category(call.score, VRRS_RISK_THRESHOLDS))

InitAggregate ==
    /\ vendor_data = EmptyDict
    /\ pc = "call"
    /\ ret = 0
    /\ \/ /\ \E t \in TieDirs : fp = [NoTies EXCEPT !["vrrs"] = t]
          /\ \E f, p, c, l, s \in ScoreGrid :
             \E w \in {None, Some(DEFAULT_RISK_WEIGHTS)}
                      \cup {Some(x) : x \in [Dimensions -> WeightGrid]} :
                call = [op |-> "calculate_vendor_risk_reliability",
                        financial |-> f, past |-> p, contract |-> c, labor |-> l,
                        sanctions |-> s, weights |-> w]
       \/ /\ fp = NoTies
          /\ \E x \in 0..1000 : call = [op |-> "determine_risk_category", score |-> x]

NextAggregate ==
    \/ CalculateVendorRiskReliability
    \/ DetermineRiskCategory

SpecAggregate == InitAggregate /\ [][NextAggregate]_vars

IsPowerOfTwo(k) == k \in {1, 2, 4, 8}

\* k * w is computed from the same binary fractions as w: scaling by a power
\* of two is exact, and so is any integer scaling of weights that are
\* multiples of 0.25.  Then v / total_weight is the same float in both calls.
SameFloats(k, w) == IsPowerOfTwo(k) \/ \A d \in DOMAIN w : w[d] % 25 = 0

\* C4: weight normalization is scale-invariant: for any scores, any weight set
\* w with positive sum and any scalar k > 0, the call with weights k*w returns
\* the same VRRS as the call with weights w.
C4_ScaleInvariant ==
    (/\ pc = "done" /\ call.op = "calculate_vendor_risk_reliability"
     /\ call.weights.given /\ SumValues(call.weights.value) > 0) =>
        \A k \in 1..MaxScale :
        \A t \in (IF SameFloats(k, call.weights.value) THEN {fp["vrrs"]} ELSE TieDirs) :
            calculate_vendor_risk_reliability(
                call.financial, call.past, call.contract, call.labor, call.sanctions,
                Some(ScaleWeights(k, call.weights.value)), t) = ret

(***************************************************************************)
(* The dimension scorers on a vendor record.  A scorer that annotates the  *)
(* record returns [value, vendor_data]: its result and the record after.   *)
(***************************************************************************)

\* ---- past_performance.py ----
CANCELLATION_CRITERIA ==
    ("Non-Fulfillment" :> <<1, 5, 10>>) @@ ("Compliance" :> <<1, 7, 10>>)
        @@ ("Adminstrative" :> <<5, 8, 10>>)

\* the same with one cancellation scored like several
get_cancellation_score_atleastone(cancellation_type, count) ==
    LET thresholds == Get(CANCELLATION_CRITERIA, cancellation_type, <<10, 5, 1>>)
    IN  IF count = 0 THEN thresholds[1] ELSE thresholds[3]

get_cancellation_score(cancellation_type, count) ==
    LET thresholds == Get(CANCELLATION_CRITERIA, cancellation_type, <<10, 5, 1>>)
    IN  IF count = 0 THEN thresholds[1]
        ELSE IF count = 1 THEN thresholds[2]
        ELSE thresholds[3]

get_past_performance_cancellation_score(vd) ==
    LET non_fulfillment_count == Get(vd, "Non-Fulfillment", 0)
        compliance_count == Get(vd, "Compliance", 0)
        administrative_count0 == Get(vd, "Administrative", 0)
        administrative_count ==
            IF administrative_count0 < 0 THEN 0 ELSE administrative_count0
        non_fulfillment_score ==
            get_cancellation_score("Non-Fulfillment", non_fulfillment_count)
        compliance_score == get_cancellation_score("Compliance", compliance_count)
        adminstrative_score ==
            get_cancellation_score("Adminstrative", administrative_count)
    IN  \* x * 0.50 + y * 0.35 + z * 0.15 is a whole number of hundredths
        Round2(non_fulfillment_score * 50 + compliance_score * 35
               + adminstrative_score * 15, 1, "down")

\* ---- federal_contract.py ----
OTHER_THAN_FULL_COMPETITION_CODES ==
    {"ONE", "NS", "SP2", "BND", "IA", "MES", "UNQ", "URG", "OTH", "RES", "FOC",
     "UR", "PDR", "UT", "STD", "PI", "MPT"}

Award(type, amount) == ("type" :> type) @@ ("amount" :> amount)

\* [score_amount_vs_year(...) for award in awards]
AmountVsYearScores(awards) ==
    [i \in 1..Len(awards) |->
        score_amount_vs_year(Get(awards[i], "type", "prime_contract"),
                             Get(awards[i], "amount", 0))]

\* sum(1 for award in awards if award.get('competition_code') in CODES)
NonCompetitiveAwards(awards) ==
    Cardinality({i \in 1..Len(awards) :
        Get(awards[i], "competition_code", "None") \in OTHER_THAN_FULL_COMPETITION_CODES})

calculate_final_contract_score(vd, tie) ==
    LET awards0 == Get(vd, "awards", <<>>)
        awards == IF awards0 = <<>> THEN <<Award("prime_contract", 0)>> ELSE awards0
        amount_vs_year_scores == AmountVsYearScores(awards)
        \* normalized_amount_vs_year_score is the fraction sum / len
        sum == SumSeq(amount_vs_year_scores)
        len == Len(amount_vs_year_scores)
        agency_score == score_amount_vs_agency(Get(vd, "agency_count", 0))
        sub_agency_score == score_amount_vs_sub_agency(Get(vd, "sub_agency_count", 0))
        recompute == "awards" \in DOMAIN vd /\ awards # <<>> /\ Len(awards) > 0
        total_awards == Len(awards)
        non_competitive_awards == NonCompetitiveAwards(awards)
        competition_percentage ==
            (non_competitive_awards * 100 * PctUnit) \div total_awards
        competition_score ==
            IF recompute THEN score_amount_vs_competition(competition_percentage)
            ELSE score_amount_vs_competition(
                    Get(vd, "competition_percentage", 100 * PctUnit))
        vd1 == IF recompute
               THEN Put(Put(Put(Put(vd,
                        "competition_percentage", competition_percentage),
                        "competition_score", competition_score),
                        "non_competitive_awards", non_competitive_awards),
                        "total_awards", total_awards)
               ELSE vd
        vd2 == Put(Put(Put(vd1,
                    "agency_score", agency_score),
                    "sub_agency_score", sub_agency_score),
                    "normalized_amount_vs_year_score", [num |-> sum, den |-> len])
    IN  [value |-> Round2(agency_score * 25 * len + sub_agency_score * 20 * len
                          + 25 * sum + competition_score * 30 * len, len, tie),
         vendor_data |-> vd2]

(***************************************************************************)
(* Trend analysis: financial_stability.analyze_trend and                   *)
(* foreign_labor.analyze_visa_trend, both on scipy.stats.linregress.       *)
(* A value of a series is a number, NaN or None.  The years of a series    *)
(* are distinct.  Of the regression the model keeps what the classifiers   *)
(* read: the sign of the slope, |r| against 0.5 and p against 0.05; the    *)
(* slope itself is the fraction num / den.                                 *)
(***************************************************************************)
Num(v) == [kind |-> "num", v |-> v]
NaN == [kind |-> "nan", v |-> 0]
NoneValue == [kind |-> "none", v |-> 0]
\* a text that float() does not take, such as "N/A"
NotANumber == [kind |-> "str", v |-> 0]

\* zip(years, values)
Zip(years, values) ==
    [i \in 1..Min2(Len(years), Len(values)) |-> <<years[i], values[i]>>]

RECURSIVE InsertByYear(_, _)
InsertByYear(p, s) ==
    IF s = <<>> THEN <<p>>
    ELSE IF p[1] <= Head(s)[1] THEN <<p>> \o s
    ELSE <<Head(s)>> \o InsertByYear(p, Tail(s))

\* sorted(pairs) for pairs with distinct years
RECURSIVE SortedPairs(_)
SortedPairs(s) ==
    IF s = <<>> THEN <<>> ELSE InsertByYear(Head(s), SortedPairs(Tail(s)))

IsValid(p) == p[2].kind = "num"

\* The sums linregress works with, for pairs of numbers:
\* Sxx = n^2 var(x), Syy = n^2 var(y), Sxy = n^2 cov(x, y)
Regression(pairs) ==
    LET n == Len(pairs)
        x == [i \in 1..n |-> pairs[i][1]]
        y == [i \in 1..n |-> pairs[i][2].v]
        Sx == SumSeq(x)
        Sy == SumSeq(y)
    IN  [n |-> n,
         Sxx |-> n * SumSeq([i \in 1..n |-> x[i] * x[i]]) - Sx * Sx,
         Sxy |-> n * SumSeq([i \in 1..n |-> x[i] * y[i]]) - Sx * Sy,
         Syy |-> n * SumSeq([i \in 1..n |-> y[i] * y[i]]) - Sy * Sy,
         first_value |-> y[1],
         last_value |-> y[n]]

\* The square of the two-sided 5% critical value of Student's t for 1..6
\* degrees of freedom, in hundredths
TCrit2 == <<16145, 1851, 1013, 771, 661, 599>>

\* p_value < 0.05.  linregress: for n = 2, p is 0.0 unless y[0] == y[1];
\* otherwise p comes from t = r * sqrt(df / (1 - r^2)), r = 0 for constant y.
StatisticalSig(reg) ==
    IF reg.n = 2 THEN reg.first_value # reg.last_value
    ELSE IF reg.Syy = 0 THEN FALSE
    ELSE 100 * reg.Sxy * reg.Sxy * (reg.n - 2)
            > TCrit2[reg.n - 2] * (reg.Sxx * reg.Syy - reg.Sxy * reg.Sxy)

\* abs(r_value) > 0.5
CorrelationSig(reg, env) ==
    IF reg.Syy = 0 THEN FALSE
    ELSE \/ 4 * reg.Sxy * reg.Sxy > reg.Sxx * reg.Syy
         \/ 4 * reg.Sxy * reg.Sxy = reg.Sxx * reg.Syy /\ env["correlation"] = "up"

\* the sign of the float slope
SlopeSign(reg, env) ==
    IF reg.Sxy > 0 THEN 1
    ELSE IF reg.Sxy < 0 THEN -1
    ELSE IF reg.Syy = 0 THEN 0
    ELSE CASE env["slope"] = "up" -> 1
           [] env["slope"] = "down" -> -1
           [] OTHER -> 0

\* abs(relative_change) > pct / 100, for 0 < pct < 100
AbsRelativeChangeAbove(first_value, last_value, pct) ==
    IF first_value # 0
    THEN 100 * Abs(last_value - first_value) > pct * Abs(first_value)
    ELSE last_value # 0

Slope(num, den, sign) == [nan |-> FALSE, num |-> num, den |-> den, sign |-> sign]
ZeroSlope == Slope(0, 1, 0)
NaNSlope == [nan |-> TRUE, num |-> 0, den |-> 1, sign |-> 0]

\* ---- financial_stability.py ----
TREND_SCORES ==
    [ROA |-> [improving |-> 2, stable |-> 5, declining |-> 10],
     ROE |-> [improving |-> 2, stable |-> 5, declining |-> 10],
     Altman_Z |-> [improving |-> 2, stable |-> 5, declining |-> 10],
     DTE |-> [improving |-> 10, stable |-> 5, declining |-> 2],
     DTI |-> [improving |-> 10, stable |-> 5, declining |-> 2]]

StableTrend(metric) ==
    ("trend" :> "stable") @@ ("slope" :> ZeroSlope)
        @@ ("score" :> TREND_SCORES[metric]["stable"])

\* the classification by the sign of the slope alone, significant or not
ClassifyTrend_bysign(reg, metric, env) ==
    LET sign == SlopeSign(reg, env)
        up == metric \in {"ROA", "ROE", "Altman_Z"}
        trend == IF sign = 0 THEN "stable"
                 ELSE IF up = (sign > 0) THEN "improving" ELSE "declining"
    IN  Returned(
            ("trend" :> trend) @@ ("classification" :> trend)
            @@ ("slope" :> Slope(reg.Sxy, reg.Sxx, sign))
            @@ ("score" :> TREND_SCORES[metric][trend])
            @@ ("statistical_sig" :> StatisticalSig(reg))
            @@ ("correlation_sig" :> CorrelationSig(reg, env))
            @@ ("magnitude_sig" :> FALSE)
            @@ ("significance" :> StatisticalSig(reg))
            @@ ("data_points" :> reg.n))

\* analyze_trend from linregress on: the classification of the regression reg
ClassifyTrend(reg, metric, env) ==
    LET sign == SlopeSign(reg, env)
        statistical_sig == StatisticalSig(reg)
        correlation_sig == CorrelationSig(reg, env)
        magnitude_sig ==
            AbsRelativeChangeAbove(reg.first_value, reg.last_value,
                IF metric \in {"ROA", "ROE"} THEN 15
                ELSE IF metric = "Altman_Z" THEN 20 ELSE 25)
        significant ==
            \/ statistical_sig
            \/ correlation_sig /\ magnitude_sig
            \/ reg.n <= 3 /\ AbsRelativeChangeAbove(reg.first_value, reg.last_value, 30)
        up == metric \in {"ROA", "ROE", "Altman_Z"}
        trend ==
            IF ~significant THEN "stable"
            ELSE IF up THEN (IF sign > 0 THEN "improving" ELSE "declining")
            ELSE (IF sign < 0 THEN "improving" ELSE "declining")
    IN  Returned(
            ("trend" :> trend) @@ ("classification" :> trend)
            @@ ("slope" :> Slope(reg.Sxy, reg.Sxx, sign))
            @@ ("score" :> TREND_SCORES[metric][trend])
            @@ ("statistical_sig" :> statistical_sig)
            @@ ("correlation_sig" :> correlation_sig)
            @@ ("magnitude_sig" :> magnitude_sig)
            @@ ("significance" :> significant)
            @@ ("data_points" :> reg.n)
            @@ ("first_value" :> reg.first_value)
            @@ ("last_value" :> reg.last_value)
            @@ ("direction" :>
                    IF (up /\ sign > 0) \/ (~up /\ sign < 0) THEN "up" ELSE "down"))

analyze_trend(years, values, metric, env) ==
    IF Len(years) < 2 \/ Len(values) < 2 THEN Returned(StableTrend(metric))
    ELSE
    LET valid_data == SelectSeq(Zip(years, values), IsValid)
    IN  IF Len(valid_data) < 2 THEN Returned(StableTrend(metric))
        ELSE ClassifyTrend(Regression(SortedPairs(valid_data)), metric, env)

\* ---- foreign_labor.py ----
StableVisaTrend(metric) ==
    ("classification" :> "stable") @@ ("score" :> 6) @@ ("slope" :> ZeroSlope)
        @@ ("metric" :> metric) @@ ("significance" :> FALSE)
        @@ ("direction" :> "neutral")

\* abs(relative_change) > pct / 100 on values that may be NaN: every
\* comparison with NaN is false, so a zero first value with a NaN last value
\* takes the last branch of "0 if last == 0 else 1 if last > 0 else -1"
AbsRelativeChangeAboveNaN(first, last, pct) ==
    IF first.kind = "nan" THEN FALSE
    ELSE IF first.v # 0
         THEN last.kind = "num" /\ AbsRelativeChangeAbove(first.v, last.v, pct)
         ELSE last.kind = "nan" \/ last.v # 0

\* analyze_visa_trend from linregress on: the classification of the sorted
\* pairs and of their regression reg
ClassifyVisaTrend(paired_data, reg, metric, env) ==
    LET n == Len(paired_data)
        first == paired_data[1][2]
        last == paired_data[n][2]
        negative == metric \in {"denied", "withdrawn", "denied_withdrawn"}
        positive == metric \in {"certified", "certified_expired"}
        pct == IF negative THEN 20 ELSE 15
        has_nan == \E i \in 1..n : paired_data[i][2].kind = "nan"
        \* with a NaN among the values the slope, r and (for n > 2) p are NaN
        sign == IF has_nan THEN 0 ELSE SlopeSign(reg, env)
        slope == IF has_nan THEN NaNSlope ELSE Slope(reg.Sxy, reg.Sxx, sign)
        statistical_sig == IF has_nan THEN n = 2 ELSE StatisticalSig(reg)
        correlation_sig == IF has_nan THEN FALSE ELSE CorrelationSig(reg, env)
        magnitude_sig == AbsRelativeChangeAboveNaN(first, last, pct)
        significant ==
            \/ statistical_sig
            \/ correlation_sig /\ magnitude_sig
            \/ n <= 3 /\ AbsRelativeChangeAboveNaN(first, last, 25)
        classification ==
            IF negative
            THEN (IF significant /\ sign < 0 THEN "improving"
                  ELSE IF significant /\ sign > 0 THEN "declining" ELSE "stable")
            ELSE IF positive
            THEN (IF significant /\ sign > 0 THEN "improving"
                  ELSE IF significant /\ sign < 0 THEN "declining" ELSE "stable")
            ELSE "stable"
        score == CASE classification = "improving" -> 2
                   [] classification = "declining" -> 10
                   [] OTHER -> 6
        direction ==
            IF classification = "stable" THEN "neutral"
            ELSE IF sign < 0 THEN "down" ELSE "up"
    IN  \* np.array / linregress on a list holding None
        IF \E i \in 1..n : paired_data[i][2].kind = "none" THEN Raised("TypeError")
        ELSE Returned(
                ("classification" :> classification) @@ ("score" :> score)
                @@ ("slope" :> slope)
                @@ ("statistical_sig" :> statistical_sig)
                @@ ("correlation_sig" :> correlation_sig)
                @@ ("magnitude_sig" :> magnitude_sig)
                @@ ("significance" :> significant)
                @@ ("metric" :> metric)
                @@ ("first_value" :> first) @@ ("last_value" :> last)
                @@ ("direction" :> direction)
                @@ ("data_points" :> n))

analyze_visa_trend(years, values, metric, env) ==
    IF years = <<>> \/ values = <<>> \/ Len(years) < 2 \/ Len(values) < 2
    THEN Returned(StableVisaTrend(metric))
    ELSE
    LET paired_data == SortedPairs(Zip(years, values))
    IN  ClassifyVisaTrend(paired_data, Regression(paired_data), metric, env)

\* Bounds of the series tried
MaxPoints == 3

TrendValues == {Num(0), Num(1), Num(3), NaN, NoneValue}

\* the years of a series of n points: in order, reversed, and with a gap
YearSeqs(n) ==
    {[i \in 1..n |-> 2020 + i], [i \in 1..n |-> 2021 + n - i],
     [i \in 1..n |-> IF i = 1 THEN 2019 ELSE 2020 + i]}

\* a series that falls from 3 to 0 with a regression slope of exactly 0: the
\* means 2022 and 4 and every product of the covariance are whole numbers
FlatYears == <<2019, 2023, 2024>>
FlatValues == <<Num(3), Num(9), Num(0)>>

\* the series tried, as <<years, values>>
TrendSeries ==
    UNION {YearSeqs(n) \X [1..n -> TrendValues] : n \in 0..MaxPoints}
        \cup {<<FlatYears, FlatValues>>}

VisaMetrics == {"certified", "denied", "denied_withdrawn", "unspecified"}

FloatEnvs ==
    {e \in [FloatSites -> SignDirs] :
        \A site \in FloatSites \ {"slope"} : e[site] \in TieDirs}

TrendEnvs == {e \in FloatEnvs : \A site \in RoundingSites : e[site] = "down"}

AnalyzeTrend ==
    /\ pc = "call" /\ call.op = "analyze_trend"
    /\ Return(analyze_trend(call.years, call.values, call.metric, fp))

AnalyzeVisaTrend ==
    /\ pc = "call" /\ call.op = "analyze_visa_trend"
    /\ Return(analyze_visa_trend(call.years, call.values, call.metric, fp))

InitTrend ==
    /\ vendor_data = EmptyDict
    /\ pc = "call"
    /\ ret = 0
    /\ fp \in TrendEnvs
    /\ \E s \in TrendSeries :
          \/ \E m \in FinancialMetrics :
                call = [op |-> "analyze_trend", years |-> s[1],
                        values |-> s[2], metric |-> m]
          \/ \E m \in VisaMetrics :
                call = [op |-> "analyze_visa_trend", years |-> s[1],
                        values |-> s[2], metric |-> m]

NextTrend ==
    \/ AnalyzeTrend
    \/ AnalyzeVisaTrend

SpecTrend == InitTrend /\ [][NextTrend]_vars

\* The number of (year, value) pairs of the call whose value is not missing
ValidPairs ==
    Cardinality({i \in 1..Min2(Len(call.years), Len(call.values)) :
                    call.values[i].kind = "num"})

\* C8: both trend analyzers, given fewer than 2 valid (year, value) pairs after
\* discarding missing values, return classification stable, slope 0 and the
\* neutral score: 5 for every financial metric, 6 for every visa metric.
C8_FewPointsStable ==
    (pc = "done" /\ call.op \in {"analyze_trend", "analyze_visa_trend"}
     /\ ValidPairs < 2) =>
        /\ ret.raised = "none"
        /\ Get(ret.value, "classification", Get(ret.value, "trend", "none")) = "stable"
        /\ ret.value["slope"] = ZeroSlope
        /\ ret.value["score"] = (IF call.op = "analyze_trend" THEN 5 ELSE 6)

(***************************************************************************)
(* Financial stability: the current-year score blended with the trend.     *)
(* historical_financial maps a year string to the metrics of that year.    *)
(***************************************************************************)
\* The year strings int(year) parses, in sorted order; any other key of the
\* historical data raises ValueError in int() and is skipped
YearKeys == <<"2020", "2021", "2022", "2023", "2024">>

IntOfYear(year) ==
    CASE year = "2020" -> 2020 [] year = "2021" -> 2021 [] year = "2022" -> 2022
      [] year = "2023" -> 2023 [] year = "2024" -> 2024

\* The (year, value) lists calculate_trend_score collects for a metric
MetricSeries(financial_data, metric) ==
    LET Has(year) ==
            /\ year \in DOMAIN financial_data
            /\ metric \in DOMAIN financial_data[year]
            /\ financial_data[year][metric].kind # "none"
        keys == SelectSeq(YearKeys, Has)
    IN  [years |-> [i \in 1..Len(keys) |-> IntOfYear(keys[i])],
         values |-> [i \in 1..Len(keys) |-> financial_data[keys[i]][metric]]]

\* sum(scores.get(metric, 5) * FINANCIAL_METRIC_WEIGHTS[metric]) / sum(weights),
\* in hundredths: the weights are hundredths and sum to 1.00
WeightedMetricScore(scores) ==
    SumValues([m \in FinancialMetrics |-> Get(scores, m, 5) * FINANCIAL_METRIC_WEIGHTS[m]])

\* the weighted trend score of the metrics analyzed, with their details
WeightedTrendScore(trend_results) ==
    LET normalized_trend_scores ==
            [m \in DOMAIN trend_results |->
                Max2(1, Min2(10, trend_results[m]["score"]))]
    IN  IF DOMAIN trend_results = {} THEN <<500, EmptyDict>>
        ELSE <<Round2(WeightedMetricScore(normalized_trend_scores), 1, "down"),
               trend_results>>

\* calculate_trend_score of financial_stability.py: <<trend_score, trend_details>>
calculate_trend_score(financial_data, env) ==
    IF financial_data = EmptyDict THEN <<500, EmptyDict>>
    ELSE
    LET series == [m \in FinancialMetrics |-> MetricSeries(financial_data, m)]
        analyzed == {m \in FinancialMetrics : series[m].years # <<>>}
    IN  WeightedTrendScore(
            [m \in analyzed |->
                analyze_trend(series[m].years, series[m].values, m, env).value])

process_historical_financial_data(vd) ==
    IF "historical_financial" \notin DOMAIN vd THEN EmptyDict
    ELSE vd["historical_financial"]

\* The trend of get_financial_stability_score, <<trend_score, trend_details>>:
\* from the pre-calculated trend_analysis of the record when it holds one,
\* from the historical data otherwise
FinancialTrend(vd, env) ==
    LET precalculated ==
            "trend_analysis" \in DOMAIN vd /\ vd["trend_analysis"] # EmptyDict
        trend_results == vd["trend_analysis"]
        trend_scores ==
            [m \in DOMAIN trend_results \cap FinancialMetrics |->
                IF "score" \in DOMAIN trend_results[m]
                THEN trend_results[m]["score"]
                ELSE Get(TREND_SCORES[m],
                         Get(trend_results[m], "classification", "stable"), 5)]
    IN  IF precalculated
        THEN (IF DOMAIN trend_scores # {}
              THEN <<Round2(WeightedMetricScore(trend_scores), 1, "down"), trend_results>>
              ELSE <<500, EmptyDict>>)
        ELSE calculate_trend_score(process_historical_financial_data(vd), env)

\* the blend with the trend score added whole to the current-year score
BlendFinancialStability_sum(vd, weighted_current_score, trend) ==
    [value |-> Round2(100 * weighted_current_score + 100 * trend[1], 100, "down"),
     vendor_data |-> vd]

\* get_financial_stability_score once the current-year score and the trend
\* are known: the blend, and the record with its annotations
BlendFinancialStability(vd, weighted_current_score, trend) ==
    LET trend_score == trend[1]
        vd1 == Put(vd, "trend_analysis", trend[2])
        vd2 == Put(vd1, "historical_financial_structured",
                   process_historical_financial_data(vd1))
        vd3 == Put(Put(Put(vd2,
                    "financial_point_in_time_score", weighted_current_score),
                    "financial_trend_score", trend_score),
                    "current_year_score", weighted_current_score)
    IN  \* 80 * current + 20 * trend is never half way between two hundredths
        \* when the current score is a multiple of 0.05, as the tables make it
        [value |-> Round2(80 * weighted_current_score + 20 * trend_score, 100, "down"),
         vendor_data |-> vd3]

\* the same taking what is no number as a ratio of -1
FloatOrLoss(value) == IF value.kind = "num" THEN value.v ELSE -1000

\* float(value) of lines 388-395, in thousandths: the number itself, and 0
\* where float raises TypeError (None) or ValueError (a text that is no number)
FloatOrZero(value) == IF value.kind = "num" THEN value.v ELSE 0

get_financial_stability_score(vd, env) ==
    LET metric_scores ==
            [m \in FinancialMetrics |->
                calculate_financial_metric_score(m, FloatOrZero(Get(vd, m, Num(0))))]
    IN  BlendFinancialStability(vd, WeightedMetricScore(metric_scores),
                                FinancialTrend(vd, env))

\* The cascade shared by the interpret_* functions of the four dimension
\* modules, on a score in hundredths
RiskCascade(score) ==
    IF score >= 800 THEN "Severe Risk"
    ELSE IF 650 <= score /\ score < 800 THEN "High Risk"
    ELSE IF 450 <= score /\ score < 650 THEN "Moderate Risk"
    ELSE IF 250 <= score /\ score < 450 THEN "Low Risk"
    ELSE "Very Low Risk"

interpret_financial_stability_risk_score(score) == RiskCascade(score)
interpret_past_performance_cancellation_score(score) == RiskCascade(score)
interpret_federal_contract_score(score) == RiskCascade(score)
interpret_foreign_labor_risk_score(score) == RiskCascade(score)

\* interpret_sanctions_score, on the 0-100 scale
interpret_sanctions_score(score) ==
    IF score >= 80 THEN "Severe Risk"
    ELSE IF score >= 65 THEN "High Risk"
    ELSE IF score >= 45 THEN "Moderate Risk"
    ELSE IF score >= 25 THEN "Low Risk"
    ELSE "Very Low Risk"

(***************************************************************************)
(* Foreign labor: the current-year score of the countries and visa counts, *)
(* blended with the visa trend.  A score that is not rounded yet is the    *)
(* fraction num / den.                                                     *)
(***************************************************************************)
Frac(num, den) == [num |-> num, den |-> den]

AddFrac(a, b) == Frac(a.num * b.den + b.num * a.den, a.den * b.den)

\* COUNTRY_RISK_MULTIPLIER, in tenths
COUNTRY_RISK_MULTIPLIER == [low_risk |-> 6, moderate_risk |-> 8, high_risk |-> 10]

\* RISK_CATEGORIZATION, with the countries the model uses
RISK_CATEGORIZATION ==
    [low_risk |-> {"USA", "Canada", "Germany"},
     moderate_risk |-> {"India", "Brazil", "Mexico"},
     high_risk |-> {"Russia", "China", "Iran"}]

get_country_risk_multiplier(country) ==
    IF country \in RISK_CATEGORIZATION["low_risk"] THEN COUNTRY_RISK_MULTIPLIER["low_risk"]
    ELSE IF country \in RISK_CATEGORIZATION["moderate_risk"]
         THEN COUNTRY_RISK_MULTIPLIER["moderate_risk"]
    ELSE IF country \in RISK_CATEGORIZATION["high_risk"]
         THEN COUNTRY_RISK_MULTIPLIER["high_risk"]
    ELSE COUNTRY_RISK_MULTIPLIER["moderate_risk"]

\* the job sensitivity score, a fraction in units
calculate_job_sensitivity_score(low0, moderate0, high0) ==
    LET low == Max2(0, low0)
        moderate == Max2(0, moderate0)
        high == Max2(0, high0)
        total_jobs == low + moderate + high
    IN  IF total_jobs = 0 THEN Frac(1, 1)
        ELSE Frac(low * 1 + moderate * 6 + high * 10, total_jobs)

VisaCountKeys ==
    <<"certified", "denied", "withdrawn", "certified_expired", "unspecified">>

\* the country score, a fraction in hundredths:
\* 100 * (job * 0.40 + (total_visa_score / len) * multiplier * 0.60)
calculate_country_score_with_visa(country_data, visa_counts) ==
    LET risk_multiplier == get_country_risk_multiplier(Get(country_data, "country", "Unknown"))
        job == calculate_job_sensitivity_score(
                    Get(country_data, "job_counts_low", 0),
                    Get(country_data, "job_counts_moderate", 0),
                    Get(country_data, "job_counts_high", 0))
        total_visa_score ==
            SumSeq([i \in 1..Len(VisaCountKeys) |->
                get_visa_category_score(VisaCountKeys[i], visa_counts[VisaCountKeys[i]])])
        len == Max2(Len(VisaCountKeys), 1)
        score == Frac(40 * job.num * len + 6 * total_visa_score * risk_multiplier * job.den,
                      job.den * len)
    IN  \* min(max(final_country_score, 0), 10)
        IF score.num < 0 THEN Frac(0, 1)
        ELSE IF score.num > 1000 * score.den THEN Frac(1000, 1)
        ELSE score

RECURSIVE SumCountryScores(_, _)
SumCountryScores(countries_data, visa_counts) ==
    IF countries_data = <<>> THEN Frac(0, 1)
    ELSE AddFrac(calculate_country_score_with_visa(Head(countries_data), visa_counts),
                 SumCountryScores(Tail(countries_data), visa_counts))

\* the same without the test for no countries: the visa counts alone
calculate_final_adjusted_foreign_labor_score_visaonly(countries_data, visa_counts, tie) ==
    LET total_score ==
            SumCountryScores(IF countries_data = <<>> THEN <<EmptyDict>> ELSE countries_data,
                             visa_counts)
    IN  Round2(total_score.num, total_score.den * Max2(Len(countries_data), 1), tie)

calculate_final_adjusted_foreign_labor_score(countries_data, visa_counts, tie) ==
    IF countries_data = <<>> THEN 0
    ELSE LET total_score == SumCountryScores(countries_data, visa_counts)
         IN  Round2(total_score.num, total_score.den * Len(countries_data), tie)

calculate_final_foreign_labor_score(vd, tie) ==
    LET countries_data == Get(vd, "countries_data", <<>>)
        visa_counts ==
            [certified |-> Get(vd, "visa_certified_count", 0),
             denied |-> Get(vd, "visa_denied_count", 0),
             withdrawn |-> Get(vd, "visa_withdrawn_count", 0),
             certified_expired |-> Get(vd, "visa_certified_expired_count", 0),
             unspecified |-> Get(vd, "visa_unspecified_count", 0)]
    IN  \* round(round(x, 2), 2)
        calculate_final_adjusted_foreign_labor_score(countries_data, visa_counts, tie)

\* The per-year record process_historical_visa_data starts a year with
NewVisaYear ==
    ("certified" :> 0) @@ ("denied" :> 0) @@ ("withdrawn" :> 0)
        @@ ("certified-withdrawn" :> 0) @@ ("certified-expired" :> 0)
        @@ ("unspecified" :> 0) @@ ("total" :> 0)

\* The key of the per-year record a visa type is added to
VisaTypeKey(visa_type) ==
    CASE visa_type = "Certified" -> "certified"
      [] visa_type = "Denied" -> "denied"
      [] visa_type = "Withdrawn" -> "withdrawn"
      [] visa_type = "Certified-Withdrawn" -> "certified-withdrawn"
      [] visa_type = "Certified-Expired" -> "certified_expired"
      [] OTHER -> "unspecified"

\* One loop of process_historical_visa_data over the entries of a list;
\* historical_data[year][key] += count raises KeyError for a key the
\* per-year record does not hold
RECURSIVE ProcessVisaEntries(_, _, _, _)
ProcessVisaEntries(entries, type_key, count_key, historical_data) ==
    IF entries = <<>> THEN Returned(historical_data)
    ELSE
    LET entry == Head(entries)
        year == entry["Year"]
        key == VisaTypeKey(Get(entry, type_key, "Unspecified"))
        count == Get(entry, count_key, 0)
        started == IF year \in DOMAIN historical_data THEN historical_data
                   ELSE Put(historical_data, year, NewVisaYear)
        record == started[year]
    IN  IF key \notin DOMAIN record THEN Raised("KeyError")
        ELSE ProcessVisaEntries(Tail(entries), type_key, count_key,
                Put(started, year,
                    Put(Put(record, key, record[key] + count),
                        "total", record["total"] + count)))

process_historical_visa_data(visa_data) ==
    LET h1b == ProcessVisaEntries(Get(visa_data, "h1b_data", <<>>),
                                  "H1B Type", "H1B Count", EmptyDict)
    IN  IF h1b.raised # "none" THEN h1b
        ELSE ProcessVisaEntries(Get(visa_data, "permanent_visa_data", <<>>),
                                "Permanent Visa Type", "Permanent Visa Count", h1b.value)

\* sorted(S) for a set of integers
RECURSIVE SortedSeq(_)
SortedSeq(S) ==
    IF S = {} THEN <<>>
    ELSE LET m == CHOOSE x \in S : \A y \in S : x <= y
         IN  <<m>> \o SortedSeq(S \ {m})

TREND_ADJUSTMENT == [favorable |-> 2, neutral |-> 6, unfavorable |-> 10]

calculate_visa_trend_score(trend_data) ==
    IF trend_data["denied_withdrawn_trend"] = 10 \/ trend_data["certified_trend"] = 10
    THEN TREND_ADJUSTMENT["unfavorable"]
    ELSE IF trend_data["certified_trend"] = 2 /\ trend_data["denied_withdrawn_trend"] = 2
    THEN TREND_ADJUSTMENT["favorable"]
    ELSE TREND_ADJUSTMENT["neutral"]

\* calculate_trend_score of foreign_labor.py: [trend_score, trend_data], or
\* the exception process_historical_visa_data raised
\* the last five of the sorted years
RecentYears(years) ==
    IF Len(years) > 5 THEN SubSeq(years, Len(years) - 4, Len(years)) ELSE years

\* the values of a key of the per-year records over the years
YearValues(historical_data, years, key) ==
    [i \in 1..Len(years) |-> Get(historical_data[years[i]], key, 0)]

\* the result of calculate_trend_score from the two trends analyzed
VisaTrendResult(certified_trend, denied_withdrawn_trend, years_analyzed) ==
    LET trend_data ==
            ("certified_trend" :> certified_trend["score"])
            @@ ("denied_withdrawn_trend" :> denied_withdrawn_trend["score"])
            @@ ("trend_details" :> [certified |-> certified_trend,
                                    denied_withdrawn |-> denied_withdrawn_trend])
            @@ ("years_analyzed" :> years_analyzed)
    IN  Returned([trend_score |-> Frac(calculate_visa_trend_score(trend_data), 1),
                  trend_data |-> trend_data])

\* calculate_trend_score on the processed per-year records over the recent
\* years
VisaTrendOfYears(historical_data, recent_years, env) ==
    LET certified == YearValues(historical_data, recent_years, "certified")
        denied == YearValues(historical_data, recent_years, "denied")
        withdrawn == YearValues(historical_data, recent_years, "withdrawn")
        certified_withdrawn ==
            YearValues(historical_data, recent_years, "certified-withdrawn")
        certified_values == [i \in 1..Len(recent_years) |-> Num(certified[i])]
        denied_withdrawn_values ==
            [i \in 1..Len(recent_years) |->
                Num(denied[i] + withdrawn[i] + certified_withdrawn[i])]
    IN  VisaTrendResult(
            analyze_visa_trend(recent_years, certified_values, "certified", env).value,
            analyze_visa_trend(recent_years, denied_withdrawn_values,
                               "denied_withdrawn", env).value,
            Len(recent_years))

foreign_labor_calculate_trend_score(visa_data, env) ==
    LET processed == process_historical_visa_data(visa_data)
    IN  IF processed.raised # "none" THEN processed
        ELSE VisaTrendOfYears(processed.value,
                              RecentYears(SortedSeq(DOMAIN processed.value)), env)

\* the default scores of the pre-calculated visa trends
DefaultVisaTrends ==
    [h1b_certified |-> 5, h1b_denied |-> 5, h1b_withdrawn |-> 5,
     perm_certified |-> 5, perm_denied |-> 5]

ClassificationScore(classification) ==
    CASE classification = "improving" -> 2
      [] classification = "stable" -> 5
      [] classification = "declining" -> 8

\* The trend of calculate_final_foreign_labor_score_with_trend,
\* [trend_score, trend_data] or the exception raised: from the pre-calculated
\* visa_trend_analysis of the record when it holds one, from the historical
\* visa data otherwise
ForeignLaborTrend(vd, env) ==
    LET precalculated ==
            "visa_trend_analysis" \in DOMAIN vd /\ vd["visa_trend_analysis"] # EmptyDict
        trend_results == vd["visa_trend_analysis"]
        scored == {m \in DOMAIN trend_results :
                      Get(trend_results[m], "classification", "stable")
                          \in {"improving", "stable", "declining"}}
        visa_trends ==
            [m \in DOMAIN DefaultVisaTrends \cup scored |->
                IF m \in scored
                THEN ClassificationScore(Get(trend_results[m], "classification", "stable"))
                ELSE DefaultVisaTrends[m]]
    IN  IF precalculated
        THEN Returned([trend_score |-> Frac(SumValues(visa_trends),
                                            Cardinality(DOMAIN visa_trends)),
                       trend_data |-> trend_results])
        ELSE foreign_labor_calculate_trend_score(
                [h1b_data |-> Get(vd, "h1b_data", <<>>),
                 permanent_visa_data |-> Get(vd, "permanent_visa_data", <<>>)], env)

\* calculate_final_foreign_labor_score_with_trend once the current-year
\* score and the trend are known
BlendForeignLabor(current_year_score, trend, env) ==
    LET trend_score == trend.value.trend_score
        \* 100 * (current * 0.85 + trend * 0.15) with current in hundredths
        final_score ==
            Round2(85 * current_year_score * trend_score.den + 1500 * trend_score.num,
                   100 * trend_score.den, env["labor_final"])
    IN  IF trend.raised # "none" THEN trend
        ELSE Returned(
                ("foreign_labor_score" :> final_score)
                @@ ("current_year_score" :> current_year_score)
                @@ ("trend_score" :> trend_score)
                @@ ("trend_data" :> trend.value.trend_data)
                @@ ("weights" :> [current_year |-> 85, trend |-> 15])
                @@ ("risk_category" :> interpret_foreign_labor_risk_score(final_score)))

calculate_final_foreign_labor_score_with_trend(vd, env) ==
    BlendForeignLabor(calculate_final_foreign_labor_score(vd, env["labor_current"]),
                      ForeignLaborTrend(vd, env), env)

(***************************************************************************)
(* calculate_scores: the five dimension scores of a vendor record, the     *)
(* VRRS and the categories.  The result is [raised, value, vendor_data]:   *)
(* the exception or the result dict, and the record as the call left it.   *)
(***************************************************************************)
\* calculate_scores from the results of the three scorers that can annotate
\* the record or raise: financial and federal are [value, vendor_data]
CombineScores(financial, federal, foreign_labor_result, custom_weights, env) ==
    LET weights ==
            IF custom_weights.given /\ custom_weights.value # EmptyDict
            THEN custom_weights.value ELSE DEFAULT_RISK_WEIGHTS
        vd1 == financial.vendor_data
        financial_stability_score == financial.value
        past_performance_cancellation_score == get_past_performance_cancellation_score(vd1)
        vd2 == federal.vendor_data
        federal_contract_score == federal.value
        \* the tuple get_sanctions_score(vendor_data) returns; line 142 or 147
        \* assigns sanctions_risk_score again before it is read
        sanctions_from_texts == get_sanctions_score([kind |-> "dict", value |-> vd2])
        foreign_labor_score == foreign_labor_result.value["foreign_labor_score"]
        vd3 == Put(vd2, "foreign_labor_trend", foreign_labor_result.value)
        sanctions_risk_score_raw == Get(vd3, "sanctions_risk_score", 0)
        \* in hundredths: raw, raw / 10, or 10
        sanctions_risk_score ==
            IF sanctions_risk_score_raw <= 10 THEN sanctions_risk_score_raw * 100
            ELSE IF sanctions_risk_score_raw <= 100 THEN sanctions_risk_score_raw * 10
            ELSE 1000
        sanctions_risk_score_for_interp ==
            IF sanctions_risk_score_raw <= 10 THEN sanctions_risk_score_raw * 10
            ELSE sanctions_risk_score_raw
        vrrs == calculate_vendor_risk_reliability(
                    financial_stability_score, past_performance_cancellation_score,
                    federal_contract_score, foreign_labor_score, sanctions_risk_score,
                    Some(weights), env["vrrs"])
        vrrs_score == vrrs.value
    IN  IF foreign_labor_result.raised # "none"
        THEN [raised |-> foreign_labor_result.raised, value |-> EmptyDict, vendor_data |-> vd2]
        ELSE IF vrrs.raised # "none"
        THEN [raised |-> vrrs.raised, value |-> EmptyDict, vendor_data |-> vd3]
        ELSE
        [raised |-> "none",
         vendor_data |-> vd3,
         value |->
            [financial_stability_score |-> financial_stability_score,
             financial_stability_category |->
                interpret_financial_stability_risk_score(financial_stability_score),
             trend_analysis |-> Get(vd3, "trend_analysis", EmptyDict),
             financial_point_in_time_score |-> Get(vd3, "financial_point_in_time_score", 0),
             financial_trend_score |-> Get(vd3, "financial_trend_score", 0),
             past_performance_score |-> past_performance_cancellation_score,
             past_performance_category |->
                interpret_past_performance_cancellation_score(
                    past_performance_cancellation_score),
             federal_contract_score |-> federal_contract_score,
             federal_contract_category |->
                interpret_federal_contract_score(federal_contract_score),
             foreign_labor_score |-> foreign_labor_score,
             foreign_labor_category |-> interpret_foreign_labor_risk_score(foreign_labor_score),
             foreign_labor_trend |-> vd3["foreign_labor_trend"],
             visa_trend_analysis |-> Get(vd3, "visa_trend_analysis", EmptyDict),
             sanctions_score |-> sanctions_risk_score,
             sanctions_category |-> interpret_sanctions_score(sanctions_risk_score_for_interp),
             sanctions_details |-> [count_normalized |-> sanctions_risk_score],
             vrrs_score |-> vrrs_score,
             risk_category |-> determine_risk_category(vrrs_score, VRRS_RISK_THRESHOLDS),
             weights_used |-> weights]]

\* the scorers run in the order of the code, each on the record the one
\* before it left
ScoreForeignLabor(financial, federal, custom_weights, env) ==
    CombineScores(financial, federal,
                  calculate_final_foreign_labor_score_with_trend(federal.vendor_data, env),
                  custom_weights, env)

ScoreFederal(financial, custom_weights, env) ==
    ScoreForeignLabor(financial,
                      calculate_final_contract_score(financial.vendor_data, env["federal"]),
                      custom_weights, env)

calculate_scores(vd, custom_weights, env) ==
    ScoreFederal(get_financial_stability_score(vd, env), custom_weights, env)

(***************************************************************************)
(* Scoring calls on vendor records.  The records tried are the scenario    *)
(* record of the test script and its variations, one dimension at a time.  *)
(***************************************************************************)
Country(country, low, moderate, high) ==
    ("country" :> country) @@ ("job_counts_low" :> low)
        @@ ("job_counts_moderate" :> moderate) @@ ("job_counts_high" :> high)

Scenario ==
    ("Altman_Z" :> Num(10000)) @@ ("DTE" :> Num(100)) @@ ("DTI" :> Num(100))
    @@ ("ROA" :> Num(200)) @@ ("ROE" :> Num(200))
    @@ ("Non-Fulfillment" :> 0) @@ ("Compliance" :> 0) @@ ("Administrative" :> 0)
    @@ ("awards" :> <<Award("prime_contract", 6278000)>>)
    @@ ("competition_percentage" :> 3 * PctUnit)
    @@ ("agency_count" :> 2) @@ ("sub_agency_count" :> 3)
    @@ ("countries_data" :> <<Country("Canada", 0, 1, 0)>>)
    @@ ("visa_certified_count" :> 1) @@ ("visa_denied_count" :> 0)
    @@ ("visa_withdrawn_count" :> 0) @@ ("visa_certified_expired_count" :> 0)
    @@ ("visa_unspecified_count" :> 0)

\* Bounds of the records tried
MaxCancellations == 2
MaxAwards == 2
MaxCodedAwards == 17
MaxCountries == 2
MaxHistory == 2

\* d with the keys of e set to the values of e
Update(d, e) == e @@ d

\* the records that set or leave out one key
WithKey(d, key, values) == {Put(d, key, v) : v \in values} \cup {Remove(d, key)}

PastRecords ==
    {Update(Scenario, ("Non-Fulfillment" :> n) @@ ("Compliance" :> c)
                        @@ ("Administrative" :> a)) :
        n, c, a \in (-1)..MaxCancellations}
    \cup {Remove(Remove(Remove(Scenario, "Non-Fulfillment"), "Compliance"), "Administrative")}

AwardChoices ==
    {Award("prime_contract", 0), Award("prime_contract", 6278000),
     Award("sub_contract", 20000000) @@ ("competition_code" :> "ONE"),
     ("competition_code" :> "NS")}

\* a list of n awards of which the first k carry a code of
\* OTHER_THAN_FULL_COMPETITION_CODES and the others the code of full and open
\* competition
CodedAwards(n, k) ==
    [i \in 1..n |->
        Award("prime_contract", 6278000)
            @@ ("competition_code" :> (IF i <= k THEN "ONE" ELSE "F"))]

CodedAwardsRecords ==
    {Put(Scenario, "awards", CodedAwards(p[1], p[2])) :
        p \in {q \in (1..MaxCodedAwards) \X (0..MaxCodedAwards) : q[2] <= q[1]}}

FederalRecords ==
    CodedAwardsRecords \cup
    UNION {UNION {UNION {WithKey(r3, "competition_percentage",
                                 {0, 3 * PctUnit, 26 * PctUnit, 100 * PctUnit}) :
                         r3 \in WithKey(r2, "sub_agency_count", {0, 3, 5})} :
                  r2 \in WithKey(r1, "agency_count", {0, 2, 5})} :
           r1 \in WithKey(Scenario, "awards", SeqsUpTo(AwardChoices, MaxAwards))}

FinancialCurrentRecords ==
    UNION {WithKey(Scenario, m, {Num(0), Num(505), Num(1810), Num(3000),
                                 NoneValue, NotANumber}) : m \in FinancialMetrics}

\* histories of one metric over the first n years
FinancialHistories ==
    UNION {{[y \in {YearKeys[i] : i \in 1..n} \cup extra |->
                IF y \in extra THEN (m :> Num(1))
                ELSE (m :> (CHOOSE v \in TrendValues : \E i \in 1..n : YearKeys[i] = y /\ vals[i] = v))] :
            vals \in [1..n -> {Num(1), Num(3), NaN, NoneValue}],
            m \in {"ROA", "DTE"}, extra \in {{}, {"FY23"}}} : n \in 0..MaxHistory}

FinancialTrendAnalyses ==
    {(m :> info) : m \in {"ROA", "DTE", "revenue"},
                   info \in {("classification" :> c) : c \in {"improving", "stable", "declining", "flat"}}
                            \cup {("score" :> x) : x \in {0, 2, 50}}}
    \cup {EmptyDict}

FinancialRecords ==
    FinancialCurrentRecords
    \cup {Put(Scenario, "historical_financial", h) : h \in FinancialHistories}
    \cup {Put(Scenario, "trend_analysis", t) : t \in FinancialTrendAnalyses}

CountryChoices ==
    {Country("Canada", 0, 1, 0), Country("India", 1, 0, 2), Country("China", 0, 0, 0),
     ("job_counts_high" :> 3)}

LaborCurrentRecords ==
    UNION {UNION {WithKey(r2, "visa_denied_count", {0, 21}) :
                  r2 \in WithKey(r1, "visa_certified_count", {0, 1, 11, 51})} :
           r1 \in WithKey(Scenario, "countries_data", SeqsUpTo(CountryChoices, MaxCountries))}

H1B(year, type, count) == ("Year" :> year) @@ ("H1B Type" :> type) @@ ("H1B Count" :> count)

Permanent(year, type, count) ==
    ("Year" :> year) @@ ("Permanent Visa Type" :> type) @@ ("Permanent Visa Count" :> count)

VisaHistoryFields ==
    {("h1b_data" :> h) : h \in SeqsUpTo(
        {H1B(y, t, c) : y \in {2021, 2022}, c \in {1, 5},
                        t \in {"Certified", "Denied", "Certified-Expired"}}, MaxHistory)}
    \cup {("permanent_visa_data" :> <<Permanent(2021, "Certified", 5),
                                      Permanent(2022, "Certified", 1)>>)}
    \cup {("visa_trend_analysis" :> (m :> ("classification" :> c))) :
            m \in {"h1b_certified", "perm_denied", "other"},
            c \in {"improving", "stable", "declining", "flat"}}

LaborTrendRecords ==
    {Update(r, f) : r \in WithKey(Scenario, "countries_data", {<<>>}),
                    f \in VisaHistoryFields}

LaborRecords == LaborCurrentRecords \cup LaborTrendRecords

SanctionTexts ==
    {Text(<<"Violations">>), Text(<<"3", "violations">>), Text(<<"12", "violations">>),
     Text(ExampleText), NonText}

SanctionsRecords ==
    UNION {WithKey(r, "sanctions_risk_score", {0, 7, 10, 11, 55, 150}) :
           r \in WithKey(Scenario, "sanctions", SeqsUpTo(SanctionTexts, MaxEntries))}

\* The input fields of a vendor record, by the scorer that reads them
CancellationKeys == {"Non-Fulfillment", "Compliance", "Administrative"}

FederalKeys == {"awards", "competition_percentage", "agency_count", "sub_agency_count"}

VisaCountFields ==
    {"visa_certified_count", "visa_denied_count", "visa_withdrawn_count",
     "visa_certified_expired_count", "visa_unspecified_count"}

FieldGroups ==
    {FinancialMetrics, CancellationKeys, FederalKeys,
     VisaCountFields \cup {"countries_data"}, {"sanctions_risk_score"}}

CountKeys == CancellationKeys \cup VisaCountFields \cup {"agency_count", "sub_agency_count"}

Restrict(d, keys) == [k \in DOMAIN d \cap keys |-> d[k]]

\* a record with every input field, and one whose award and country lack fields
FullRecord ==
    Update(Scenario, ("sanctions_risk_score" :> 55) @@ ("Non-Fulfillment" :> 1)
                        @@ ("visa_denied_count" :> 21))

SparseEntriesRecord ==
    Update(FullRecord, ("awards" :> <<("competition_code" :> "NS")>>)
                        @@ ("countries_data" :> <<("job_counts_high" :> 3)>>))

\* The records with part of the fields of one scorer missing, the other
\* scorers having all of their fields or none, and the records with ratios
\* that are no numbers
PartialRecords ==
    UNION {UNION {{Restrict(FullRecord, DOMAIN FullRecord \ missing),
                   Restrict(FullRecord, missing)} : missing \in SUBSET group} :
           group \in FieldGroups}
    \cup {Update(FullRecord, [m \in metrics |-> v]) :
            metrics \in SUBSET FinancialMetrics, v \in {NoneValue, NotANumber}}
    \cup {SparseEntriesRecord}

\* Records at the ends of the input ranges: the safest and the riskiest values
\* of every field, with and without a history of the ratios
BestRecord ==
    ("Altman_Z" :> Num(10000)) @@ ("DTE" :> Num(0)) @@ ("DTI" :> Num(0))
    @@ ("ROA" :> Num(5000)) @@ ("ROE" :> Num(5000))
    @@ ("Non-Fulfillment" :> 0) @@ ("Compliance" :> 0) @@ ("Administrative" :> 0)
    @@ ("awards" :> <<Award("prime_contract", 0)>>)
    @@ ("competition_percentage" :> 0)
    @@ ("agency_count" :> 0) @@ ("sub_agency_count" :> 0)
    @@ ("countries_data" :> <<Country("Canada", 5, 0, 0)>>)
    @@ ("visa_certified_count" :> 0) @@ ("visa_denied_count" :> 0)
    @@ ("visa_withdrawn_count" :> 0) @@ ("visa_certified_expired_count" :> 0)
    @@ ("visa_unspecified_count" :> 0)
    @@ ("sanctions_risk_score" :> 0)

WorstRecord ==
    ("Altman_Z" :> Num(1000)) @@ ("DTE" :> Num(9000)) @@ ("DTI" :> Num(9000))
    @@ ("ROA" :> Num(0)) @@ ("ROE" :> Num(0))
    @@ ("Non-Fulfillment" :> 9) @@ ("Compliance" :> 9) @@ ("Administrative" :> 9)
    @@ ("awards" :> <<Award("prime_contract", 900000000)
                        @@ ("competition_code" :> "NS")>>)
    @@ ("competition_percentage" :> 150 * PctUnit)
    @@ ("agency_count" :> 50) @@ ("sub_agency_count" :> 50)
    @@ ("countries_data" :> <<Country("China", 0, 0, 9), Country("Iran", 0, 0, 9)>>)
    @@ ("visa_certified_count" :> 900) @@ ("visa_denied_count" :> 900)
    @@ ("visa_withdrawn_count" :> 900) @@ ("visa_certified_expired_count" :> 900)
    @@ ("visa_unspecified_count" :> 900)
    @@ ("sanctions_risk_score" :> 100)

ExtremeRecords ==
    UNION {WithKey(r, "historical_financial", FinancialHistories) :
           r \in {BestRecord, WorstRecord}}

\* Records that come with a trend_analysis of a metric the engine does not
\* score, next to a history of the ratios
UnscoredTrendRecords ==
    {Put(r, "trend_analysis", ("revenue" :> ("classification" :> "improving"))) :
        r \in WithKey(WorstRecord, "historical_financial", FinancialHistories)}

WeightChoices ==
    {None, Some(EmptyDict), Some(DEFAULT_RISK_WEIGHTS),
     Some([d \in Dimensions |-> 1]), Some([d \in Dimensions |-> 0]),
     Some(ScaleWeights(3, DEFAULT_RISK_WEIGHTS)),
     Some(Remove(DEFAULT_RISK_WEIGHTS, "sanctions_risk"))}

\* Bound of the scores interpreted, in hundredths
MaxCategoryScore == 1100

\* The interpreters of a dimension score on the 0-10 scale
DimensionInterpreters ==
    {"interpret_financial_stability_risk_score",
     "interpret_past_performance_cancellation_score",
     "interpret_federal_contract_score", "interpret_foreign_labor_risk_score"}

Interpreters ==
    DimensionInterpreters \cup {"determine_risk_category", "interpret_sanctions_score"}

\* The float environments that differ from NoTies at the given sites only
EnvsAt(sites) == {e \in FloatEnvs : \A site \in FloatSites \ sites : e[site] = NoTies[site]}

ReturnWith(value, vd) ==
    /\ ret' = value
    /\ vendor_data' = vd
    /\ pc' = "done"
    /\ UNCHANGED <<call, fp>>

GetFinancialStabilityScore ==
    /\ pc = "call" /\ call.op = "get_financial_stability_score"
    /\ LET r == get_financial_stability_score(vendor_data, fp)
       IN  ReturnWith(r.value, r.vendor_data)

GetPastPerformanceCancellationScore ==
    /\ pc = "call" /\ call.op = "get_past_performance_cancellation_score"
    /\ Return(get_past_performance_cancellation_score(vendor_data))

CalculateFinalContractScore ==
    /\ pc = "call" /\ call.op = "calculate_final_contract_score"
    /\ LET r == calculate_final_contract_score(vendor_data, fp["federal"])
       IN  ReturnWith(r.value, r.vendor_data)

CalculateFinalForeignLaborScoreWithTrend ==
    /\ pc = "call" /\ call.op = "calculate_final_foreign_labor_score_with_trend"
    /\ Return(calculate_final_foreign_labor_score_with_trend(vendor_data, fp))

CalculateScores ==
    /\ pc = "call" /\ call.op = "calculate_scores"
    /\ LET r == calculate_scores(vendor_data, call.custom_weights, fp)
       IN  ReturnWith([raised |-> r.raised, value |-> r.value], r.vendor_data)

\* A second calculate_scores call on the same record object, which holds what
\* the first call wrote to it; call.vendor_data keeps the original content
CalculateScoresAgain ==
    /\ pc = "done" /\ call.op = "calculate_scores" /\ ret.raised = "none"
    /\ LET r == calculate_scores(vendor_data, call.custom_weights, fp)
       IN  /\ ret' = [raised |-> r.raised, value |-> r.value]
           /\ vendor_data' = r.vendor_data
           /\ pc' = "rescored"
           /\ UNCHANGED <<call, fp>>

InterpretFinancialStabilityRiskScore ==
    /\ pc = "call" /\ call.op = "interpret_financial_stability_risk_score"
    /\ Return(interpret_financial_stability_risk_score(call.score))

InterpretPastPerformanceCancellationScore ==
    /\ pc = "call" /\ call.op = "interpret_past_performance_cancellation_score"
    /\ Return(interpret_past_performance_cancellation_score(call.score))

InterpretFederalContractScore ==
    /\ pc = "call" /\ call.op = "interpret_federal_contract_score"
    /\ Return(interpret_federal_contract_score(call.score))

InterpretForeignLaborRiskScore ==
    /\ pc = "call" /\ call.op = "interpret_foreign_labor_risk_score"
    /\ Return(interpret_foreign_labor_risk_score(call.score))

\* interpret_sanctions_score on 10 times a normalized score of call.score
\* hundredths, as calculate_scores calls it.  The function compares with whole
\* numbers only, which the whole part of its argument decides.
InterpretSanctionsScore ==
    /\ pc = "call" /\ call.op = "interpret_sanctions_score"
    /\ Return(interpret_sanctions_score(call.score \div 10))

\* A call of an operation on a record; call.vendor_data keeps the record as
\* it was passed
VendorCall(op, records, sites) ==
    /\ fp \in EnvsAt(sites)
    /\ \E r \in records :
        /\ vendor_data = r
        /\ call = [op |-> op, vendor_data |-> r, custom_weights |-> None]

Init ==
    /\ pc = "call"
    /\ ret = 0
    /\ \/ VendorCall("get_financial_stability_score", FinancialRecords,
                     {"correlation", "slope"})
       \/ VendorCall("get_past_performance_cancellation_score", PastRecords, {})
       \/ VendorCall("calculate_final_contract_score", FederalRecords, {"federal"})
       \/ VendorCall("calculate_final_foreign_labor_score_with_trend", LaborRecords,
                     {"labor_current", "labor_final", "correlation", "slope"})
       \/ VendorCall("calculate_scores",
                     SanctionsRecords \cup PastRecords \cup LaborTrendRecords
                        \cup PartialRecords \cup ExtremeRecords \cup UnscoredTrendRecords
                        \cup {Remove(Scenario, "awards"), EmptyDict},
                     {"vrrs"})
       \/ /\ fp \in EnvsAt(RoundingSites)
          /\ \E w \in WeightChoices :
                /\ vendor_data = Scenario
                /\ call = [op |-> "calculate_scores", vendor_data |-> Scenario,
                           custom_weights |-> w]
       \/ /\ fp = NoTies
          /\ vendor_data = EmptyDict
          /\ \E op \in Interpreters : \E x \in 0..MaxCategoryScore :
                call = [op |-> op, score |-> x]

Next ==
    \/ GetFinancialStabilityScore
    \/ GetPastPerformanceCancellationScore
    \/ CalculateFinalContractScore
    \/ CalculateFinalForeignLaborScoreWithTrend
    \/ CalculateScores
    \/ CalculateScoresAgain
    \/ DetermineRiskCategory
    \/ InterpretFinancialStabilityRiskScore
    \/ InterpretPastPerformanceCancellationScore
    \/ InterpretFederalContractScore
    \/ InterpretForeignLaborRiskScore
    \/ InterpretSanctionsScore

Spec == Init /\ [][Next]_vars

\* The scenario record of the end-to-end example, with no sanctions key or with
\* an empty list of sanctions texts
ScenarioCall ==
    /\ pc = "done" /\ call.op = "calculate_scores"
    /\ call.vendor_data \in {Scenario, Put(Scenario, "sanctions", <<>>)}
    /\ call.custom_weights = None

\* C2: calculate_scores on the scenario record (Altman_Z 10, DTE 0.1, DTI 0.1,
\* ROA 0.2, ROE 0.2, no cancellations, one prime contract of 6,278,000,
\* competition 3%, 2 agencies, 3 sub-agencies, one Canada entry with jobs 0/1/0,
\* one certified visa, no sanctions) with the default weights returns the
\* category Very Low Risk, on a VRRS of 2.49.
C2_ScenarioVeryLowRisk ==
    ScenarioCall =>
        /\ ret.raised = "none"
        /\ ret.value.vrrs_score = 249
        /\ ret.value.risk_category = "Very Low Risk"

\* C2 as stated: the scenario record is scored Low Risk or Moderate Risk.
C2_ScenarioLowToModerate ==
    ScenarioCall =>
        /\ ret.raised = "none"
        /\ ret.value.risk_category \in {"Low Risk", "Moderate Risk"}

C2_Witness ==
    /\ ScenarioCall
    /\ call.vendor_data = Scenario
    /\ ret.raised = "none"
    /\ ret.value.financial_stability_score = 276
    /\ ret.value.federal_contract_score = 410
    /\ ret.value.risk_category = "Very Low Risk"

\* C3: the sanctions_score calculate_scores reports, the one that enters the
\* VRRS, is the score get_sanctions_score computes from the sanctions texts of
\* the record.
C3_SanctionsScoreFromTexts ==
    (/\ pc = "done" /\ call.op = "calculate_scores"
     /\ "sanctions" \in DOMAIN call.vendor_data
     /\ ret.raised = "none") =>
        ret.value.sanctions_score =
            100 * get_sanctions_score(
                    [kind |-> "list", value |-> call.vendor_data["sanctions"]]).score

\* C5: a record whose awards are missing or an empty list gets the federal
\* contract score of the same record with the single award
\* {type: prime_contract, amount: 0}.
C5_EmptyAwardsAsDefaultAward ==
    (/\ pc = "done" /\ call.op = "calculate_final_contract_score"
     /\ Get(call.vendor_data, "awards", <<>>) = <<>>) =>
        ret = calculate_final_contract_score(
                Put(call.vendor_data, "awards", <<Award("prime_contract", 0)>>),
                fp["federal"]).value

\* f of the formula of the past performance score: the element of the triple
\* for a count of 0, of 1, of 2 or more
PickOfTriple(triple, count) ==
    IF count = 0 THEN triple[1] ELSE IF count = 1 THEN triple[2] ELSE triple[3]

\* the cancellation counts of the call are all given and none is negative
NonNegativeCounts ==
    \A k \in {"Non-Fulfillment", "Compliance", "Administrative"} :
        k \in DOMAIN call.vendor_data /\ call.vendor_data[k] >= 0

\* C6: for cancellation counts n, c, a >= 0 the past performance score is
\* 0.50 f([1,5,10], n) + 0.35 f([1,7,10], c) + 0.15 f([5,8,10], a), in
\* hundredths; all-zero counts give 1.60.
C6_PastPerformanceFormula ==
    (/\ pc = "done" /\ call.op = "get_past_performance_cancellation_score"
     /\ NonNegativeCounts) =>
        /\ ret = 50 * PickOfTriple(<<1, 5, 10>>, call.vendor_data["Non-Fulfillment"])
                 + 35 * PickOfTriple(<<1, 7, 10>>, call.vendor_data["Compliance"])
                 + 15 * PickOfTriple(<<5, 8, 10>>, call.vendor_data["Administrative"])
        /\ (/\ call.vendor_data["Non-Fulfillment"] = 0
            /\ call.vendor_data["Compliance"] = 0
            /\ call.vendor_data["Administrative"] = 0) => ret = 160

C6_Witness ==
    /\ pc = "done" /\ call.op = "get_past_performance_cancellation_score"
    /\ NonNegativeCounts
    /\ call.vendor_data["Non-Fulfillment"] = 1
    /\ call.vendor_data["Compliance"] = 2
    /\ call.vendor_data["Administrative"] = 0
    /\ ret = 675

\* a call of the foreign labor scorer that returned
ForeignLaborReturned ==
    /\ pc = "done" /\ call.op = "calculate_final_foreign_labor_score_with_trend"
    /\ ret.raised = "none"

\* 100 * den times the difference between the final score and
\* 0.85 current-year + 0.15 trend, scores in hundredths and the trend num / den
BlendDifference ==
    LET trend == ret.value["trend_score"]
    IN  100 * trend.den * ret.value["foreign_labor_score"]
            - (85 * ret.value["current_year_score"] * trend.den + 1500 * trend.num)

BandCategory(score) ==
    IF score < 250 THEN "Very Low Risk"
    ELSE IF score < 450 THEN "Low Risk"
    ELSE IF score < 650 THEN "Moderate Risk"
    ELSE IF score < 800 THEN "High Risk"
    ELSE "Severe Risk"

\* C11: for every score >= 0 with two decimals, determine_risk_category, the
\* four dimension interpreters and interpret_sanctions_score on 10 times the
\* normalized score return the category of the band of the score; the
\* categories calculate_scores reports are those of the scores it reports, so
\* its VRRS is never mapped to Unknown Risk.
C11_CategoryOfBand ==
    /\ (pc = "done" /\ call.op \in Interpreters) => ret = BandCategory(call.score)
    /\ (pc = "done" /\ call.op = "calculate_scores" /\ ret.raised = "none") =>
          /\ ret.value.risk_category = BandCategory(ret.value.vrrs_score)
          /\ ret.value.risk_category # "Unknown Risk"
          /\ ret.value.financial_stability_category
                = BandCategory(ret.value.financial_stability_score)
          /\ ret.value.past_performance_category
                = BandCategory(ret.value.past_performance_score)
          /\ ret.value.federal_contract_category
                = BandCategory(ret.value.federal_contract_score)
          /\ ret.value.foreign_labor_category
                = BandCategory(ret.value.foreign_labor_score)
          /\ ret.value.sanctions_category = BandCategory(ret.value.sanctions_score)

C11_Witness ==
    /\ pc = "done" /\ call.op = "determine_risk_category"
    /\ call.score = 799
    /\ ret = "High Risk"

(***************************************************************************)
(* Partial records.                                                        *)
(***************************************************************************)
\* The keys of the result of calculate_scores, without the details and the
\* interpretation texts
ResultKeys ==
    {"financial_stability_score", "financial_stability_category", "trend_analysis",
     "financial_point_in_time_score", "financial_trend_score",
     "past_performance_score", "past_performance_category",
     "federal_contract_score", "federal_contract_category",
     "foreign_labor_score", "foreign_labor_category", "foreign_labor_trend",
     "visa_trend_analysis", "sanctions_score", "sanctions_category",
     "sanctions_details", "vrrs_score", "risk_category", "weights_used"}

\* the record with 0 for the ratios that are missing or no numbers and for
\* the counts that are missing
ZeroFilled(r) ==
    [k \in DOMAIN r \cup FinancialMetrics \cup CountKeys |->
        IF k \in FinancialMetrics
        THEN (IF k \in DOMAIN r /\ r[k].kind = "num" THEN r[k] ELSE Num(0))
        ELSE IF k \in DOMAIN r THEN r[k] ELSE 0]

NumericKeys == CountKeys \cup {"competition_percentage", "sanctions_risk_score"}

\* a record of the input shape, with no annotation of an earlier call, whose
\* numbers are not negative and whose sanctions score is within 0..100
NonNegativeInput(r) ==
    /\ DOMAIN r \cap {"trend_analysis", "visa_trend_analysis"} = {}
    /\ \A k \in DOMAIN r \cap FinancialMetrics : r[k].kind = "num" /\ r[k].v >= 0
    /\ \A k \in DOMAIN r \cap NumericKeys : r[k] >= 0
    /\ Get(r, "sanctions_risk_score", 0) <= 100

DefaultWeightsUsed(custom_weights) ==
    custom_weights \in {None, Some(EmptyDict), Some(DEFAULT_RISK_WEIGHTS)}

ScoreKeys ==
    {"financial_stability_score", "past_performance_score", "federal_contract_score",
     "foreign_labor_score", "sanctions_score", "vrrs_score"}

\* C13: for a record of the input shape with non-negative numbers and a
\* sanctions score within 0..100, the five dimension scores and the VRRS
\* with the default weights that calculate_scores returns are within 0..10.
C13_ScoresInRange ==
    (pc = "done" /\ call.op = "calculate_scores" /\ ret.raised = "none"
        /\ NonNegativeInput(call.vendor_data)
        /\ DefaultWeightsUsed(call.custom_weights)) =>
        \A k \in ScoreKeys : 0 <= ret.value[k] /\ ret.value[k] <= 1000

\* the riskiest record with a history was scored, above 8
C13_Witness ==
    /\ pc = "done" /\ call.op = "calculate_scores" /\ ret.raised = "none"
    /\ Restrict(call.vendor_data, DOMAIN WorstRecord) = WorstRecord
    /\ "historical_financial" \in DOMAIN call.vendor_data
    /\ ret.value["vrrs_score"] > 800
    /\ ret.value["sanctions_score"] = 1000

(***************************************************************************)
(* Scoring a record again.                                                 *)
(***************************************************************************)
\* the result of calculate_scores for a fresh copy of the record of the call
FreshResult == calculate_scores(call.vendor_data, call.custom_weights, fp)

\* C14: the result of scoring a record that an earlier call has scored and
\* annotated equals the result of scoring a fresh copy of its original
\* content.  Violated: the first call empties a trend_analysis that names no
\* scored metric, and the second call then takes the trend from the history.
C14_RescoringIdempotent ==
    pc = "rescored" =>
        /\ ret.raised = FreshResult.raised
        /\ ret.value = FreshResult.value

(***************************************************************************)
(* The record after a call.                                                *)
(***************************************************************************)
\* C15: every field the record holds before a calculate_scores call has the
\* same value after it.  Violated: the call writes the competition percentage
\* it recomputes from the awards, and the trend it used, over the fields
\* competition_percentage and trend_analysis of the record.
C15_InputFieldsKept ==
    (pc = "done" /\ call.op = "calculate_scores" /\ ret.raised = "none") =>
        \A k \in DOMAIN call.vendor_data :
            k \in DOMAIN vendor_data /\ vendor_data[k] = call.vendor_data[k]

(***************************************************************************)
(* Weights that sum to zero.                                               *)
(***************************************************************************)
\* The exception classes the engine defines: it has none, what its functions
\* raise are exceptions of the language
EngineErrors == {}

\* the custom weights of an aggregator call
WeightsOfCall ==
    IF call.op = "calculate_scores" THEN call.custom_weights ELSE call.weights

\* C16: an aggregator call (calculate_scores, calculate_vendor_risk_reliability)
\* with custom weights that sum to zero ends in an error that the engine
\* defines for an invalid weight configuration, and returns no VRRS.
\* Violated: the division by the sum raises ZeroDivisionError.
C16_ZeroSumWeightsError ==
    (/\ pc = "done"
     /\ call.op \in {"calculate_scores", "calculate_vendor_risk_reliability"}
     /\ WeightsOfCall.given
     /\ WeightsOfCall.value # EmptyDict
     /\ SumValues(WeightsOfCall.value) = 0) =>
        ret.raised \in EngineErrors

(***************************************************************************)
(* Negative cancellation counts.                                           *)
(***************************************************************************)
\* the record with 0 in place of the negative cancellation counts
ClampedCounts(r) ==
    [k \in DOMAIN r |-> IF k \in CancellationKeys /\ r[k] < 0 THEN 0 ELSE r[k]]

\* C17: a record with a negative count of Non-Fulfillment, Compliance or
\* Administrative cancellations gets the past performance score of the same
\* record with that count set to 0.  Violated: only the Administrative count
\* is clamped, a negative count of the other two scores like several
\* cancellations.
C17_NegativeCountsClamped ==
    (pc = "done" /\ call.op = "get_past_performance_cancellation_score") =>
        ret = get_past_performance_cancellation_score(ClampedCounts(call.vendor_data))

(***************************************************************************)
(* The competition score.                                                  *)
(***************************************************************************)
CarriesCode(award) == "competition_code" \in DOMAIN award

\* the competition score of the rule: from the codes when an award carries
\* one, from the supplied percentage (100 by default) otherwise
RuleCompetitionScore(vd) ==
    LET awards == Get(vd, "awards", <<>>)
    IN  IF \E i \in 1..Len(awards) : CarriesCode(awards[i])
        THEN score_amount_vs_competition(
                (NonCompetitiveAwards(awards) * 100 * PctUnit) \div Len(awards))
        ELSE score_amount_vs_competition(Get(vd, "competition_percentage", 100 * PctUnit))

\* the contract score with a given competition score
ContractScoreWith(vd, competition_score, tie) ==
    LET awards0 == Get(vd, "awards", <<>>)
        awards == IF awards0 = <<>> THEN <<Award("prime_contract", 0)>> ELSE awards0
        sum == SumSeq(AmountVsYearScores(awards))
        len == Len(awards)
    IN  Round2(score_amount_vs_agency(Get(vd, "agency_count", 0)) * 25 * len
               + score_amount_vs_sub_agency(Get(vd, "sub_agency_count", 0)) * 20 * len
               + 25 * sum + competition_score * 30 * len, len, tie)

\* C18: the competition score of calculate_final_contract_score comes from
\* the share of awards with a code of OTHER_THAN_FULL_COMPETITION_CODES when
\* at least one award carries a competition code, and from the supplied
\* competition_percentage (default 100) when none does.  Violated: with an
\* awards key the score comes from the codes even when no award carries one.
C18_CompetitionScoreRule ==
    (pc = "done" /\ call.op = "calculate_final_contract_score") =>
        ret = ContractScoreWith(call.vendor_data, RuleCompetitionScore(call.vendor_data),
                                fp["federal"])

\* The score of the share k of n awards, as the scorer recomputes it
ShareScore(k, n) == score_amount_vs_competition((k * 100 * PctUnit) \div n)

\* C28: for a non-empty awards list of n awards of which k carry a
\* non-competitive code, the competition score recomputed from k / n * 100 is
\* one of 1, 4, 7, 10 and no smaller share of any list gets a higher score.
\* Violated: 12 of 17 awards are 70.59 percent, between the bands that end
\* at 70 and start at 71, and score 0.
C28_CompetitionShareScored ==
    (/\ pc = "done" /\ call.op = "calculate_final_contract_score"
     /\ Get(call.vendor_data, "awards", <<>>) # <<>>) =>
        LET n == vendor_data["total_awards"]
            k == vendor_data["non_competitive_awards"]
        IN  /\ n = Len(call.vendor_data["awards"])
            /\ k = NonCompetitiveAwards(call.vendor_data["awards"])
            /\ vendor_data["competition_score"] \in {1, 4, 7, 10}
            /\ \A n2 \in 1..MaxCodedAwards : \A k2 \in 0..n2 :
                    k2 * n <= k * n2 =>
                        ShareScore(k2, n2) <= vendor_data["competition_score"]

(***************************************************************************)
(* The visa history.                                                       *)
(***************************************************************************)
\* The visa history of the record of the call, as the scorer hands it on
VisaDataOfCall ==
    [h1b_data |-> Get(call.vendor_data, "h1b_data", <<>>),
     permanent_visa_data |-> Get(call.vendor_data, "permanent_visa_data", <<>>)]

\* The sum of the per-category counts of a per-year record
CategorySum(record) == SumValues([k \in DOMAIN record \ {"total"} |-> record[k]])

\* C29: process_historical_visa_data raises for no list of history records
\* of any type with counts >= 0, the total it stores for a year is the sum of
\* that year's per-category counts, and the foreign labor scorer returns a
\* score for the history.  Violated: a record of type Certified-Expired adds
\* to the key certified_expired, which a year's record does not hold.
C29_VisaHistoryProcessed ==
    (/\ pc = "done" /\ call.op = "calculate_final_foreign_labor_score_with_trend"
     /\ "visa_trend_analysis" \notin DOMAIN call.vendor_data) =>
        LET processed == process_historical_visa_data(VisaDataOfCall)
        IN  /\ processed.raised = "none"
            /\ \A year \in DOMAIN processed.value :
                    processed.value[year]["total"] = CategorySum(processed.value[year])
            /\ ret.raised = "none"

(***************************************************************************)
(* The sanctions score received.                                           *)
(***************************************************************************)
\* C19: a sanctions risk score r received within 0..100 enters the weighted
\* sum as r / 10 (10 * r hundredths), which does not decrease with r.
\* Violated: a score up to 10 is taken as it is, so 10 gives 10 and 11 gives
\* 1.1.
C19_SanctionsNormalized ==
    (/\ pc = "done" /\ call.op = "calculate_scores" /\ ret.raised = "none"
     /\ "sanctions_risk_score" \in DOMAIN call.vendor_data
     /\ call.vendor_data["sanctions_risk_score"] \in 0..100) =>
        ret.value["sanctions_score"] = 10 * call.vendor_data["sanctions_risk_score"]

(***************************************************************************)
(* The score of a trend.                                                   *)
(***************************************************************************)
\* the classification of the result of a trend analyzer
ClassificationOf(result) ==
    Get(result, "classification", Get(result, "trend", "none"))

\* C20: a trend of a financial metric (Altman_Z, DTE, DTI, ROA, ROE) scores
\* 2 when improving, 5 when stable and 10 when declining; a trend of the visa
\* metrics certified and denied_withdrawn scores 2, 6 and 10.  Violated: for
\* DTE and DTI an improving trend scores 10 and a declining trend 2.
C20_TrendScoreMapping ==
    (/\ pc = "done" /\ call.op \in {"analyze_trend", "analyze_visa_trend"}
     /\ ret.raised = "none"
     /\ call.op = "analyze_visa_trend" => call.metric \in {"certified", "denied_withdrawn"}) =>
        ret.value["score"] =
            (CASE ClassificationOf(ret.value) = "improving" -> 2
               [] ClassificationOf(ret.value) = "stable" ->
                    (IF call.op = "analyze_trend" THEN 5 ELSE 6)
               [] ClassificationOf(ret.value) = "declining" -> 10)

(***************************************************************************)
(* The classification of a trend.                                          *)
(***************************************************************************)
HigherIsBetter == {"ROA", "ROE", "Altman_Z", "certified"}
LowerIsBetter == {"DTE", "DTI", "denied", "withdrawn", "denied_withdrawn"}

\* a trend analyzer classified the regression of a series of a metric with a
\* polarity
TrendClassified ==
    /\ pc = "done" /\ call.op \in {"analyze_trend", "analyze_visa_trend"}
    /\ ret.raised = "none"
    /\ "data_points" \in DOMAIN ret.value
    /\ call.metric \in HigherIsBetter \cup LowerIsBetter

\* the classification of the rule for a slope that is not 0
RuleClassification(significant, sign, metric) ==
    IF ~significant THEN "stable"
    ELSE IF (metric \in HigherIsBetter) = (sign > 0) THEN "improving" ELSE "declining"

SharedClassification(significant, sign, higher_is_better) ==
    IF ~significant \/ sign = 0 THEN "stable"
    ELSE IF higher_is_better = (sign > 0) THEN "improving" ELSE "declining"

\* C30: the financial and the visa trend analyzer classify by one function of
\* the significance, the sign of the slope and the polarity of the metric,
\* and neither classifies a slope of exactly 0 as improving or declining.
\* Violated: analyze_trend classifies a significant trend with slope 0 as
\* declining, analyze_visa_trend as stable.
C30_ClassifiersAgree ==
    TrendClassified =>
        /\ ClassificationOf(ret.value) =
                SharedClassification(ret.value["significance"],
                                     ret.value["slope"].sign,
                                     call.metric \in HigherIsBetter)
        /\ (~ret.value["slope"].nan /\ ret.value["slope"].sign = 0) =>
                ClassificationOf(ret.value) = "stable"

(***************************************************************************)
(* The polarity of the financial ratios.                                   *)
(***************************************************************************)
\* C22: the band score of a ratio follows its polarity.  For Altman_Z a
\* higher value never scores higher than a lower one; for DTE and DTI a
\* higher value never scores lower than a lower one; a negative ROA or ROE
\* scores at least as high as every value that is not negative.  Violated: a
\* value outside every band (below the first, or in a gap between two bands)
\* scores 0.
C22_MetricPolarity ==
    (pc = "done" /\ call.op = "calculate_financial_metric_score") =>
        \A other \in ProbeValues(METRIC_RANGES[call.metric]) :
            CASE call.metric = "Altman_Z" ->
                    other > call.value =>
                        calculate_financial_metric_score(call.metric, other) <= ret
              [] call.metric \in {"DTE", "DTI"} ->
                    other > call.value =>
                        calculate_financial_metric_score(call.metric, other) >= ret
              [] call.metric \in {"ROA", "ROE"} ->
                    (call.value < 0 /\ other >= 0) =>
                        ret >= calculate_financial_metric_score(call.metric, other)

(***************************************************************************)
(* The financial score.                                                    *)
(***************************************************************************)
\* the point-in-time score of a record, in hundredths
PointInTimeScore(r) ==
    WeightedMetricScore(
        [m \in FinancialMetrics |->
            calculate_financial_metric_score(m, FloatOrZero(Get(r, m, Num(0))))])

\* C23: the financial score is 0.8 * point-in-time + 0.2 * trend, rounded to
\* hundredths; point-in-time is the weighted sum of the five band scores;
\* the trend is 5.0 without historical data and within 1..10 for every
\* record, one that carries trend_analysis results included.  Violated: the
\* scores of a trend_analysis that comes with the record are not clamped.
C23_FinancialBlend ==
    (pc = "done" /\ call.op = "get_financial_stability_score") =>
        /\ vendor_data["financial_point_in_time_score"] = PointInTimeScore(call.vendor_data)
        /\ ret = Round2(80 * vendor_data["financial_point_in_time_score"]
                        + 20 * vendor_data["financial_trend_score"], 100, "down")
        /\ DOMAIN call.vendor_data \cap {"historical_financial", "trend_analysis"} = {}
                => vendor_data["financial_trend_score"] = 500
        /\ vendor_data["financial_trend_score"] \in 100..1000

(***************************************************************************)
(* The amount score of an award.                                           *)
(***************************************************************************)
\* The seven award types of an award record
SevenAwardTypes ==
    {"prime_contract", "prime_assistance", "sub_contract", "sub_assistance",
     "prime_award", "sub_award", "sub_grant"}

\* C24: an award of one of the seven award types with an amount >= 0 is
\* scored from the table of its type, so its amount score is a band score
\* >= 1 and never 0.  Violated: the table has the key sub-grant, an award of
\* type sub_grant finds no table and scores 0.
C24_AwardTypeScored ==
    (pc = "done" /\ call.op = "score_amount_vs_year"
        /\ call.award_type \in SevenAwardTypes /\ call.value >= 0) =>
        /\ call.award_type \in DOMAIN AWARD_TYPE_THRESHOLDS
        /\ ret >= 1

====
